---- MODULE Spec2Model ----
(***************************************************************************)
(* Account / proxy fleet controller of control-center.                     *)
(*                                                                         *)
(* Two engines exist side by side and never share state:                   *)
(*   - the DatabaseClient-backed engine (accountProxy/database/client.ts,  *)
(*     mapping.ts, failover.ts, health.ts), and                            *)
(*   - the in-memory AccountProxyManager (accountProxy.ts).                *)
(* A behaviour exercises one of them; `engine` records which.              *)
(*                                                                         *)
(* JavaScript runs one task at a time, so an async method is a sequence of *)
(* atomic steps cut at its awaits; other calls may run between two steps.  *)
(* Timestamps, credentials, response times and log text are left out: no   *)
(* modelled decision reads them.  An account's twitter handle is taken to  *)
(* be a function of its id, so the UNIQUE(twitter_handle) constraint       *)
(* coincides with the primary key on id.                                   *)
(***************************************************************************)
EXTENDS Integers, Sequences, FiniteSets, TLC

\* ---------------------------------------------------------------- bounds
ProxyOrder == <<"p1", "p2">>            \* proxy ids in ORDER BY id order
AccountOrder == <<"a1", "a2", "a3">>    \* account ids in ORDER BY id order
MaxOps == 4                             \* top-level calls per behaviour
MaxRegistryOps == 4                     \* SkillRegistry calls per behaviour
SkillIds == {"s1", "s2"}
SkillVersions == {"1.0.0", "2.0.0"}
WorkflowOrder == <<"w1", "w2">>         \* workflow ids in generation order

\* ------------------------------------------------------ program constants
DefaultMaxAccounts == 2
DefaultHealthScore == 100
DefaultMaxRetries == 3                  \* FailoverConfig.maxRetries
DefaultRetryDelayMs == 5000             \* FailoverConfig.retryDelayMs
DefaultAlertThreshold == 50             \* HealthCheckConfig.alertThreshold
DefaultCriticalThreshold == 25          \* HealthCheckConfig.criticalThreshold
WarmupActionLimit == 10                 \* getActionLimitForPhase('warmup')
SoftActionLimit == 20                   \* getActionLimitForPhase('soft')
GrowthActionLimit == 50                 \* getActionLimitForPhase('growth')
FullActionLimit == 100                  \* getActionLimitForPhase('full')

None == "none"
UnknownProxy == "p_unknown"             \* an id no proxy row carries

Range(s) == {s[i] : i \in 1..Len(s)}
Proxies == Range(ProxyOrder)
Accounts == Range(AccountOrder)
WorkflowIds == Range(WorkflowOrder)
Max(a, b) == IF a >= b THEN a ELSE b
Min(a, b) == IF a <= b THEN a ELSE b

VARIABLES
  engine,              \* "db" or "mgr": which engine this behaviour runs
  enableAutoFailover,  \* FailoverConfig.enableAutoFailover
  proxies,             \* table proxies: id -> row
  accounts,            \* table accounts: id -> row (domain = existing ids)
  mappings,            \* table mappings, in insertion order
  incidents,           \* table incidents, in insertion order
  inProgress,          \* ProxyFailover.inProgress
  hpf,                 \* per account: handleProxyFailure suspended at its await
  bulk,                \* bulkFailover / scheduleMaintenance in flight
  cap,                 \* checkAllProxies in flight
  rec,                 \* recoverProxy in flight
  accountKeys,         \* AccountProxyManager.accounts: its keys in insertion order
  mpf,                 \* AccountProxyManager.handleProxyFailure in flight
  workflows,           \* AccountProxyWorkflows.workflows: id -> Workflow
  wfr,                 \* per workflow id: the workflow function in flight
  retry,               \* ProxyFailover.withRetry in flight
  monitor,             \* HealthMonitor: its config, the columns it reads, logs, alerts
  skills,              \* SkillRegistry.skills: id -> Skill
  proxyMonitor,        \* AccountProxyMonitor: status, timers, subscriptions it made
  ret,                 \* what the step just taken returned to its caller
  opCount              \* top-level calls started so far

dbVars == <<proxies, accounts, mappings, incidents, inProgress, hpf, bulk, cap, rec>>
mgrVars == <<accountKeys, mpf>>
wfVars == <<workflows, wfr>>
vars == <<engine, enableAutoFailover, dbVars, mgrVars, wfVars, retry, monitor, skills, proxyMonitor, ret, opCount>>

NoFrame == [op |-> "none"]
NoRet == [op |-> "none"]

\* The four tables a DatabaseClient method reads and writes.
Tables == [proxies |-> proxies, accounts |-> accounts,
           mappings |-> mappings, incidents |-> incidents]

SetTables(T) ==
  /\ proxies' = T.proxies
  /\ accounts' = T.accounts
  /\ mappings' = T.mappings
  /\ incidents' = T.incidents

\* ------------------------------------------------------- DatabaseClient

\* ids of the rows of `s` (a sequence of ids in ORDER BY id order) that lie in S
OrderBy(order, S) == SelectSeq(order, LAMBDA x : x \in S)

getAllProxies(T) == ProxyOrder

getAccountsByProxy(T, proxyId) ==
  OrderBy(AccountOrder, {a \in DOMAIN T.accounts : T.accounts[a].proxyId = proxyId})

\* findAvailableProxy with the capacity condition left out of the WHERE clause
findAvailableProxy_IgnoreCapacity(T) ==
  LET avail == {p \in Proxies : T.proxies[p].status = "active"}
      least == {p \in avail : \A q \in avail :
                   T.proxies[p].assignedAccounts <= T.proxies[q].assignedAccounts}
  IN {p \in least : \A q \in least : T.proxies[p].healthScore >= T.proxies[q].healthScore}

\* findAvailableProxy without the status = 'active' condition
findAvailableProxy_AnyStatus(T) ==
  LET avail == {p \in Proxies : T.proxies[p].assignedAccounts < T.proxies[p].maxAccounts}
      least == {p \in avail : \A q \in avail :
                   T.proxies[p].assignedAccounts <= T.proxies[q].assignedAccounts}
  IN {p \in least : \A q \in least : T.proxies[p].healthScore >= T.proxies[q].healthScore}

\* SELECT ... WHERE status='active' AND assigned_accounts < max_accounts
\* ORDER BY assigned_accounts ASC, health_score DESC LIMIT 1.
\* Rows that tie on both keys come back in an order SQL leaves open, so the
\* result is any of them; the empty set stands for null.
findAvailableProxy(T) ==
  LET avail == {p \in Proxies : /\ T.proxies[p].status = "active"
                                /\ T.proxies[p].assignedAccounts < T.proxies[p].maxAccounts}
      least == {p \in avail : \A q \in avail :
                   T.proxies[p].assignedAccounts <= T.proxies[q].assignedAccounts}
  IN {p \in least : \A q \in least : T.proxies[p].healthScore >= T.proxies[q].healthScore}

\* UPDATE proxies SET <the given columns> WHERE id = ?  (no row: no effect)
updateProxy(T, id, updates) ==
  IF id \in Proxies
  THEN [T EXCEPT !.proxies = [@ EXCEPT ![id] =
          [f \in DOMAIN @ |-> IF f \in DOMAIN updates THEN updates[f] ELSE @[f]]]]
  ELSE T

\* incrementProxyAccountCount with the UPDATE forgotten
incrementProxyAccountCount_Skipped(T, proxyId) == T

incrementProxyAccountCount(T, proxyId) ==
  IF proxyId \in Proxies
  THEN [T EXCEPT !.proxies = [@ EXCEPT ![proxyId].assignedAccounts = @ + 1]]
  ELSE T

\* decrementProxyAccountCount with the UPDATE forgotten
decrementProxyAccountCount_Skipped(T, proxyId) == T

decrementProxyAccountCount(T, proxyId) ==
  IF proxyId \in Proxies
  THEN [T EXCEPT !.proxies = [@ EXCEPT ![proxyId].assignedAccounts = Max(0, @ - 1)]]
  ELSE T

createMapping(T, accountId, proxyId, previousProxyId) ==
  [T EXCEPT !.mappings = Append(@, [accountId |-> accountId, proxyId |-> proxyId,
                                    isActive |-> TRUE,
                                    previousProxyId |-> previousProxyId])]

\* createAccount that throws after the INSERT and the increment, before the
\* mapping is written
dbCreateAccount_NoMapping(T, id, proxyId) ==
  LET T1 == [T EXCEPT !.accounts =
               [a \in DOMAIN T.accounts \cup {id} |->
                  IF a = id THEN [proxyId |-> proxyId] ELSE T.accounts[a]]]
  IN incrementProxyAccountCount(T1, proxyId)

\* INSERT INTO accounts; increment the proxy's count; create the active mapping.
\* Only called for an id that is free: the INSERT throws on a taken primary key.
dbCreateAccount(T, id, proxyId) ==
  LET T1 == [T EXCEPT !.accounts =
               [a \in DOMAIN T.accounts \cup {id} |->
                  IF a = id THEN [proxyId |-> proxyId] ELSE T.accounts[a]]]
      T2 == incrementProxyAccountCount(T1, proxyId)
  IN createMapping(T2, id, proxyId, None)

\* deactivateMappings with the UPDATE forgotten
deactivateMappings_Skipped(T, accountId, proxyId) == T

\* UPDATE mappings SET is_active = 0 WHERE account_id = ? AND proxy_id = ?
deactivateMappings(T, accountId, proxyId) ==
  [T EXCEPT !.mappings =
     [i \in 1..Len(@) |->
        IF @[i].accountId = accountId /\ @[i].proxyId = proxyId
        THEN [@[i] EXCEPT !.isActive = FALSE] ELSE @[i]]]

\* Only called for an existing account (it throws otherwise).
updateAccountProxy(T, accountId, newProxyId) ==
  LET oldProxyId == T.accounts[accountId].proxyId
      T1 == [T EXCEPT !.accounts = [@ EXCEPT ![accountId].proxyId = newProxyId]]
      T2 == decrementProxyAccountCount(T1, oldProxyId)
      T3 == incrementProxyAccountCount(T2, newProxyId)
      T4 == deactivateMappings(T3, accountId, oldProxyId)
  IN createMapping(T4, accountId, newProxyId, oldProxyId)

\* createIncident that stores every incident as resolved
createIncident_Resolved(T, type, severity, accountId, proxyId, oldProxyId, newProxyId, status) ==
  [T EXCEPT !.incidents = Append(@, [type |-> type, severity |-> severity,
                                     accountId |-> accountId, proxyId |-> proxyId,
                                     oldProxyId |-> oldProxyId, newProxyId |-> newProxyId,
                                     status |-> "resolved",
                                     resolution |-> None, resolvedBy |-> None])]

\* createIncident inserts type, severity, account_id, proxy_id, old_proxy_id,
\* new_proxy_id and status; resolution and resolved_by are not among the
\* inserted columns and stay NULL.
createIncident(T, type, severity, accountId, proxyId, oldProxyId, newProxyId, status) ==
  [T EXCEPT !.incidents = Append(@, [type |-> type, severity |-> severity,
                                     accountId |-> accountId, proxyId |-> proxyId,
                                     oldProxyId |-> oldProxyId, newProxyId |-> newProxyId,
                                     status |-> status,
                                     resolution |-> None, resolvedBy |-> None])]

resolveIncident(T, i, resolution, resolvedBy) ==
  [T EXCEPT !.incidents = [@ EXCEPT ![i] = [@ EXCEPT !.status = "resolved",
                                                     !.resolution = resolution,
                                                     !.resolvedBy = resolvedBy]]]

\* DatabaseClient.updateIncident(id, updates): UPDATE incidents SET the given
\* columns WHERE id = ?; the row of another id, or no row, is left alone.
updateIncident(T, i, updates) ==
  IF i \notin 1..Len(T.incidents) THEN T
  ELSE [T EXCEPT !.incidents =
          [@ EXCEPT ![i] = [c \in DOMAIN @ |->
                              IF c \in DOMAIN updates THEN updates[c] ELSE @[c]]]]

\* ----------------------------------------------------------------- Init

InitProxy == [status |-> "active", healthScore |-> DefaultHealthScore,
              maxAccounts |-> DefaultMaxAccounts, assignedAccounts |-> 0]

\* HealthMonitor after construction with the default HealthCheckConfig, over
\* empty tables: `columns` holds the columns of accounts rows other than
\* proxy_id, for the rows where a column differs from what createAccount inserts.
InitMonitor == [config |-> [alertThreshold |-> DefaultAlertThreshold,
                            criticalThreshold |-> DefaultCriticalThreshold],
                columns |-> <<>>, logs |-> <<>>, alerts |-> <<>>, run |-> NoFrame]

\* AccountProxyMonitor after construction: not running, no timer set, no
\* subscription made on the event bus, no check run yet.
InitProxyMonitor == [isRunning |-> FALSE, timers |-> FALSE, subscriptions |-> 0,
                     healthChecks |-> 0, proxyTests |-> 0]

Init ==
  /\ engine \in {"db", "mgr"}
  /\ enableAutoFailover \in BOOLEAN
  /\ proxies = [p \in Proxies |-> InitProxy]
  /\ accounts = <<>>
  /\ mappings = <<>>
  /\ incidents = <<>>
  /\ inProgress = {}
  /\ hpf = [a \in Accounts |-> NoFrame]
  /\ bulk = NoFrame
  /\ cap = NoFrame
  /\ rec = NoFrame
  /\ accountKeys = <<>>
  /\ mpf = NoFrame
  /\ workflows = <<>>
  /\ wfr = [w \in WorkflowIds |-> NoFrame]
  /\ retry = NoFrame
  /\ monitor = InitMonitor
  /\ skills = <<>>
  /\ proxyMonitor = InitProxyMonitor
  /\ ret = NoRet
  /\ opCount = 0

\* A top-level call enters the engine.
Enter(e) ==
  /\ engine = e
  /\ opCount < MaxOps
  /\ opCount' = opCount + 1
  /\ UNCHANGED <<engine, enableAutoFailover, wfVars, retry, monitor, skills, proxyMonitor>>
  /\ IF e = "db" THEN UNCHANGED mgrVars
     ELSE UNCHANGED <<mappings, hpf, bulk, cap, rec>>

\* A step of a call already in flight.
Resume(e) ==
  /\ engine = e
  /\ UNCHANGED <<engine, enableAutoFailover, opCount, wfVars, retry, monitor, skills, proxyMonitor>>
  /\ IF e = "db" THEN UNCHANGED mgrVars
     ELSE UNCHANGED <<mappings, hpf, bulk, cap, rec>>

\* ------------------------------------------------- AccountProxyMapping

\* createAccount(config): the whole method runs without an await.
CreateAccountCall(id) ==
  /\ LET T == Tables
         found == findAvailableProxy(T)
     IN IF found = {}
        THEN /\ ret' = [op |-> "createAccount", id |-> id, success |-> FALSE,
                        error |-> "no_available_proxies", proxyId |-> None, pre |-> T]
             /\ UNCHANGED <<proxies, accounts, mappings, incidents>>
        ELSE \E proxy \in found :
               IF T.proxies[proxy].assignedAccounts >= T.proxies[proxy].maxAccounts
               THEN /\ ret' = [op |-> "createAccount", id |-> id, success |-> FALSE,
                               error |-> "at_capacity", proxyId |-> None, pre |-> T]
                    /\ UNCHANGED <<proxies, accounts, mappings, incidents>>
               ELSE IF id \in DOMAIN T.accounts
               THEN \* the INSERT throws; the catch block reports it
                    /\ ret' = [op |-> "createAccount", id |-> id, success |-> FALSE,
                               error |-> "constraint", proxyId |-> None, pre |-> T]
                    /\ UNCHANGED <<proxies, accounts, mappings, incidents>>
               ELSE /\ SetTables(dbCreateAccount(T, id, proxy))
                    /\ ret' = [op |-> "createAccount", id |-> id, success |-> TRUE,
                               error |-> None, proxyId |-> proxy, pre |-> T]
  /\ UNCHANGED <<inProgress, hpf, bulk, cap, rec>>

CreateAccount(id) ==
  /\ Enter("db")
  /\ CreateAccountCall(id)

\* moveAccount(accountId, targetProxyId): the whole method runs without an await.
MoveAccount(accountId, targetProxyId) ==
  /\ Enter("db")
  /\ LET T == Tables IN
     IF accountId \notin DOMAIN T.accounts
     THEN /\ ret' = [op |-> "moveAccount", accountId |-> accountId,
                     targetProxyId |-> targetProxyId, success |-> FALSE,
                     error |-> "account_not_found", pre |-> T]
          /\ UNCHANGED <<proxies, accounts, mappings, incidents>>
     ELSE IF targetProxyId \notin Proxies
     THEN /\ ret' = [op |-> "moveAccount", accountId |-> accountId,
                     targetProxyId |-> targetProxyId, success |-> FALSE,
                     error |-> "proxy_not_found", pre |-> T]
          /\ UNCHANGED <<proxies, accounts, mappings, incidents>>
     ELSE IF T.proxies[targetProxyId].assignedAccounts >= T.proxies[targetProxyId].maxAccounts
     THEN /\ ret' = [op |-> "moveAccount", accountId |-> accountId,
                     targetProxyId |-> targetProxyId, success |-> FALSE,
                     error |-> "at_capacity", pre |-> T]
          /\ UNCHANGED <<proxies, accounts, mappings, incidents>>
     ELSE /\ SetTables(updateAccountProxy(T, accountId, targetProxyId))
          /\ ret' = [op |-> "moveAccount", accountId |-> accountId,
                     targetProxyId |-> targetProxyId, success |-> TRUE,
                     error |-> None, pre |-> T]
  /\ UNCHANGED <<inProgress, hpf, bulk, cap, rec>>

\* validateMappings that reports a proxy holding exactly maxAccounts accounts
validateMappings_FullIsInvalid(T) ==
  [i \in 1..Len(ProxyOrder) |->
     LET p == ProxyOrder[i]
         accts == getAccountsByProxy(T, p)
     IN [proxyId |-> p, accountCount |-> Len(accts),
         maxAllowed |-> T.proxies[p].maxAccounts,
         isValid |-> Len(accts) < T.proxies[p].maxAccounts,
         accounts |-> accts]]

\* validateMappings(): one summary row per proxy, in ORDER BY id order.
validateMappings(T) ==
  [i \in 1..Len(ProxyOrder) |->
     LET p == ProxyOrder[i]
         accts == getAccountsByProxy(T, p)
     IN [proxyId |-> p, accountCount |-> Len(accts),
         maxAllowed |-> T.proxies[p].maxAccounts,
         isValid |-> Len(accts) <= T.proxies[p].maxAccounts,
         accounts |-> accts]]

\* validateMappings(), called directly: its violations are one message per
\* invalid row, naming the proxy, its account count and its maximum.
ValidateMappingsCall ==
  /\ LET summary == validateMappings(Tables)
         violations == SelectSeq(summary, LAMBDA row : ~row.isValid)
     IN ret' = [op |-> "validateMappings",
                isValid |-> Len(violations) = 0,
                violations |-> [k \in 1..Len(violations) |->
                                  <<violations[k].proxyId, violations[k].accountCount,
                                    violations[k].maxAllowed>>],
                summary |-> summary]
  /\ UNCHANGED <<proxies, accounts, mappings, incidents, inProgress, hpf, bulk, cap, rec>>

\* proxy.accounts.slice(-excessAccounts)
SliceLast(s, n) == SubSeq(s, Len(s) - n + 1, Len(s))

RECURSIVE accountsToMove(_, _)
\* the accounts rebalanceMappings visits, in visiting order, from summary row i on
accountsToMove(summary, i) ==
  IF i > Len(summary) THEN <<>>
  ELSE LET row == summary[i]
           here == IF row.isValid THEN <<>>
                   ELSE [k \in 1..(row.accountCount - row.maxAllowed) |->
                           [accountId |-> SliceLast(row.accounts,
                                                    row.accountCount - row.maxAllowed)[k],
                            fromProxy |-> row.proxyId]]
       IN here \o accountsToMove(summary, i + 1)

RECURSIVE rebalanceMoves(_, _)
\* the loop body of rebalanceMappings over the accounts still to visit:
\* every pair of final tables and recorded moves it can end with
rebalanceMoves(T, todo) ==
  IF todo = <<>> THEN {[T |-> T, moves |-> <<>>]}
  ELSE LET h == Head(todo)
           found == findAvailableProxy(T)
       IN IF found = {}
          THEN {[T |-> r.T,
                 moves |-> <<[accountId |-> h.accountId, fromProxy |-> h.fromProxy,
                              toProxy |-> None, success |-> FALSE]>> \o r.moves] :
                  r \in rebalanceMoves(T, Tail(todo))}
          ELSE UNION {{[T |-> r.T,
                        moves |-> <<[accountId |-> h.accountId, fromProxy |-> h.fromProxy,
                                     toProxy |-> n, success |-> TRUE]>> \o r.moves] :
                         r \in rebalanceMoves(updateAccountProxy(T, h.accountId, n),
                                              Tail(todo))} : n \in found}

\* rebalanceMappings(): the whole method runs without an await.
RebalanceMappingsCall ==
  /\ LET T == Tables
         summary == validateMappings(T)
     IN IF \A i \in 1..Len(summary) : summary[i].isValid
        THEN /\ ret' = [op |-> "rebalanceMappings", success |-> TRUE, moves |-> <<>>,
                        pre |-> T]
             /\ UNCHANGED <<proxies, accounts, mappings, incidents>>
        ELSE \E r \in rebalanceMoves(T, accountsToMove(summary, 1)) :
               /\ SetTables(r.T)
               /\ ret' = [op |-> "rebalanceMappings",
                          success |-> \A k \in 1..Len(r.moves) : r.moves[k].success,
                          moves |-> r.moves, pre |-> T]
  /\ UNCHANGED <<inProgress, hpf, bulk, cap, rec>>

RebalanceMappings ==
  /\ Enter("db")
  /\ RebalanceMappingsCall

\* DatabaseClient.updateProxy(id, updates), called directly
UpdateProxyCall(id, updates) ==
  /\ SetTables(updateProxy(Tables, id, updates))
  /\ ret' = [op |-> "updateProxy", id |-> id, threw |-> FALSE]
  /\ UNCHANGED <<inProgress, hpf, bulk, cap, rec>>

\* DatabaseClient.updateIncident(id, updates), called directly
UpdateIncidentCall(i, updates) ==
  /\ SetTables(updateIncident(Tables, i, updates))
  /\ ret' = [op |-> "updateIncident", id |-> i, updates |-> updates, pre |-> Tables]
  /\ UNCHANGED <<inProgress, hpf, bulk, cap, rec>>

\* ------------------------------------------------------- ProxyFailover

\* handleProxyFailure that never looks at config.enableAutoFailover
handleProxyFailureSync_IgnoreFlag(T, accountId) ==
  IF accountId \notin DOMAIN T.accounts
  THEN {[kind |-> "account_not_found", T |-> T, oldProxyId |-> None, newProxyId |-> None]}
  ELSE LET oldProxyId == T.accounts[accountId].proxyId
           T1 == updateProxy(T, oldProxyId, [status |-> "failed"])
           found == findAvailableProxy(T1)
       IN IF found = {}
          THEN {[kind |-> "no_available_proxies",
                 T |-> createIncident(T1, "proxy_failure", "critical", accountId,
                                      oldProxyId, None, None, "open"),
                 oldProxyId |-> oldProxyId, newProxyId |-> None]}
          ELSE {[kind |-> "suspended",
                 T |-> updateAccountProxy(T1, accountId, n),
                 oldProxyId |-> oldProxyId, newProxyId |-> n] : n \in found}

\* handleProxyFailure between taking the guard and its first await: every
\* way it can leave the tables.  kind "suspended" is the path that moved the
\* account and now awaits updateAdsPowerProxy; the others have returned.
handleProxyFailureSync(T, accountId) ==
  IF accountId \notin DOMAIN T.accounts
  THEN {[kind |-> "account_not_found", T |-> T, oldProxyId |-> None, newProxyId |-> None]}
  ELSE LET oldProxyId == T.accounts[accountId].proxyId IN
       IF ~enableAutoFailover
       THEN {[kind |-> "auto_failover_disabled",
              T |-> createIncident(T, "proxy_failure", "high", accountId, oldProxyId,
                                   None, None, "open"),
              oldProxyId |-> oldProxyId, newProxyId |-> None]}
       ELSE LET T1 == updateProxy(T, oldProxyId, [status |-> "failed"])
                found == findAvailableProxy(T1)
            IN IF found = {}
               THEN {[kind |-> "no_available_proxies",
                      T |-> createIncident(T1, "proxy_failure", "critical", accountId,
                                           oldProxyId, None, None, "open"),
                      oldProxyId |-> oldProxyId, newProxyId |-> None]}
               ELSE {[kind |-> "suspended",
                      T |-> updateAccountProxy(T1, accountId, n),
                      oldProxyId |-> oldProxyId, newProxyId |-> n] : n \in found}

FailoverResult(accountId, success, oldProxyId, newProxyId, error, pre) ==
  [op |-> "handleProxyFailure", accountId |-> accountId, success |-> success,
   oldProxyId |-> oldProxyId, newProxyId |-> newProxyId, error |-> error, pre |-> pre]

\* handleProxyFailure without the inProgress.has(accountId) check
CallHandleProxyFailure_NoGuard(T, accountId, caller) ==
  \E o \in handleProxyFailureSync(T, accountId) :
    /\ SetTables(o.T)
    /\ IF o.kind = "suspended"
       THEN /\ inProgress' = inProgress \cup {accountId}
            /\ hpf' = [hpf EXCEPT ![accountId] =
                         [op |-> "handleProxyFailure", caller |-> caller,
                          oldProxyId |-> o.oldProxyId, newProxyId |-> o.newProxyId,
                          pre |-> T]]
            /\ ret' = NoRet
       ELSE /\ inProgress' = (inProgress \cup {accountId}) \ {accountId}
            /\ ret' = FailoverResult(accountId, FALSE,
                                     IF o.kind = "account_not_found"
                                     THEN None ELSE o.oldProxyId,
                                     None, o.kind, T)
            /\ UNCHANGED hpf

\* handleProxyFailure that records an incident for the call it turns away
\* because a failover of the account is in progress
CallHandleProxyFailure_RejectIncident(T, accountId, caller) ==
  IF accountId \in inProgress
  THEN /\ SetTables(createIncident(T, "proxy_failure", "high", accountId,
                                   None, None, None, "open"))
       /\ ret' = FailoverResult(accountId, FALSE, None, None, "already_in_progress", T)
       /\ UNCHANGED <<inProgress, hpf>>
  ELSE \E o \in handleProxyFailureSync(T, accountId) :
         /\ SetTables(o.T)
         /\ IF o.kind = "suspended"
            THEN /\ inProgress' = inProgress \cup {accountId}
                 /\ hpf' = [hpf EXCEPT ![accountId] =
                              [op |-> "handleProxyFailure", caller |-> caller,
                               oldProxyId |-> o.oldProxyId, newProxyId |-> o.newProxyId,
                               pre |-> T]]
                 /\ ret' = NoRet
            ELSE /\ inProgress' = (inProgress \cup {accountId}) \ {accountId}
                 /\ ret' = FailoverResult(accountId, FALSE,
                                          IF o.kind = "account_not_found"
                                          THEN None ELSE o.oldProxyId,
                                          None, o.kind, T)
                 /\ UNCHANGED hpf

\* A call of handleProxyFailure(accountId) by `caller` ("top" or "bulk"), up
\* to its return or its first await.  waits' tells a bulk caller whether the
\* result is still outstanding.
CallHandleProxyFailure(T, accountId, caller) ==
  IF accountId \in inProgress
  THEN /\ SetTables(T)
       /\ ret' = FailoverResult(accountId, FALSE, None, None, "already_in_progress", T)
       /\ UNCHANGED <<inProgress, hpf>>
  ELSE \E o \in handleProxyFailureSync(T, accountId) :
         /\ SetTables(o.T)
         /\ IF o.kind = "suspended"
            THEN /\ inProgress' = inProgress \cup {accountId}
                 /\ hpf' = [hpf EXCEPT ![accountId] =
                              [op |-> "handleProxyFailure", caller |-> caller,
                               oldProxyId |-> o.oldProxyId, newProxyId |-> o.newProxyId,
                               pre |-> T]]
                 /\ ret' = NoRet
            ELSE \* added to the guard, then removed by the finally block
                 /\ inProgress' = (inProgress \cup {accountId}) \ {accountId}
                 /\ ret' = FailoverResult(accountId, FALSE,
                                          IF o.kind = "account_not_found"
                                          THEN None ELSE o.oldProxyId,
                                          None, o.kind, T)
                 /\ UNCHANGED hpf

HandleProxyFailure(accountId) ==
  /\ Enter("db")
  /\ CallHandleProxyFailure(Tables, accountId, "top")
  /\ UNCHANGED <<bulk, cap, rec>>

\* the awaited handleProxyFailure hands its result to bulkFailover's loop
Deliver(frame, outcome) ==
  IF frame.caller = "bulk"
  THEN bulk' = [bulk EXCEPT !.pending = outcome]
  ELSE UNCHANGED bulk

\* updateAdsPowerProxy resolved: record the resolved incident, return success.
HandleProxyFailureReturn(accountId) ==
  /\ Resume("db")
  /\ hpf[accountId] # NoFrame
  /\ LET f == hpf[accountId]
         T1 == createIncident(Tables, "failover_triggered", "medium", accountId,
                              f.oldProxyId, f.oldProxyId, f.newProxyId, "resolved")
     IN /\ SetTables(resolveIncident(T1, Len(T1.incidents),
                                     "Automatic failover completed", "system"))
        /\ ret' = FailoverResult(accountId, TRUE, f.oldProxyId, f.newProxyId, None, f.pre)
        /\ Deliver(f, "ok")
  /\ inProgress' = inProgress \ {accountId}
  /\ hpf' = [hpf EXCEPT ![accountId] = NoFrame]
  /\ UNCHANGED <<cap, rec>>

\* the exception path without the finally block
HandleProxyFailureThrow_NoFinally(accountId) ==
  /\ Resume("db")
  /\ hpf[accountId] # NoFrame
  /\ ret' = FailoverResult(accountId, FALSE, None, None, "exception", hpf[accountId].pre)
  /\ Deliver(hpf[accountId], "exception")
  /\ hpf' = [hpf EXCEPT ![accountId] = NoFrame]
  /\ UNCHANGED <<proxies, accounts, mappings, incidents, inProgress, cap, rec>>

\* A step after the move throws: the catch block builds a failure result.
HandleProxyFailureThrow(accountId) ==
  /\ Resume("db")
  /\ hpf[accountId] # NoFrame
  /\ ret' = FailoverResult(accountId, FALSE, None, None, "exception", hpf[accountId].pre)
  /\ Deliver(hpf[accountId], "exception")
  /\ inProgress' = inProgress \ {accountId}
  /\ hpf' = [hpf EXCEPT ![accountId] = NoFrame]
  /\ UNCHANGED <<proxies, accounts, mappings, incidents, cap, rec>>

\* bulkFailover with every result counted as a success
BulkFailoverResult_AllSuccessful(frame, results) ==
  [op |-> "bulkFailover", fromProxyId |-> frame.fromProxyId,
   total |-> Len(frame.accounts),
   successful |-> Len(results),
   failed |-> 0,
   accounts |-> frame.accounts, results |-> results, pre |-> frame.pre]

\* results[k] is "ok" for a successful FailoverResult and its error otherwise
BulkFailoverResult(frame, results) ==
  [op |-> "bulkFailover", fromProxyId |-> frame.fromProxyId,
   total |-> Len(frame.accounts),
   successful |-> Cardinality({k \in 1..Len(results) : results[k] = "ok"}),
   failed |-> Cardinality({k \in 1..Len(results) : results[k] # "ok"}),
   accounts |-> frame.accounts, results |-> results, pre |-> frame.pre]

\* bulkFailover's loop calls handleProxyFailure for accounts[idx] and awaits it.
BulkCall(T, frame) ==
  /\ CallHandleProxyFailure(T, frame.accounts[frame.idx], "bulk")
  /\ bulk' = [frame EXCEPT !.pending =
                IF hpf'[frame.accounts[frame.idx]] # hpf[frame.accounts[frame.idx]]
                THEN "wait" ELSE ret'.error]

\* bulkFailover(fromProxyId) as called by `op` ("bulkFailover" itself or
\* "scheduleMaintenance"), up to its first await or, with no account bound,
\* its return.
BulkStart(T, op, fromProxyId) ==
  LET accts == getAccountsByProxy(T, fromProxyId)
      T1 == updateProxy(T, fromProxyId, [status |-> "failed"])
      frame == [op |-> op, phase |-> "loop", fromProxyId |-> fromProxyId,
                accounts |-> accts, idx |-> 1, results |-> <<>>, pending |-> "wait",
                pre |-> T]
  IN IF accts = <<>>
     THEN /\ SetTables(T1)
          /\ ret' = BulkFailoverResult(frame, <<>>)
          /\ bulk' = IF op = "bulkFailover" THEN NoFrame
                     ELSE [frame EXCEPT !.phase = "incident"]
          /\ UNCHANGED <<inProgress, hpf>>
     ELSE BulkCall(T1, frame)

BulkFailover(fromProxyId) ==
  /\ Enter("db")
  /\ bulk = NoFrame
  /\ BulkStart(Tables, "bulkFailover", fromProxyId)
  /\ UNCHANGED <<cap, rec>>

\* The awaited handleProxyFailure has settled: push its result, then call the
\* next account's failover or return the aggregate.
BulkFailoverContinue ==
  /\ Resume("db")
  /\ bulk # NoFrame
  /\ bulk.op # "handleProxyDegradation"
  /\ bulk.phase = "loop"
  /\ bulk.pending # "wait"
  /\ LET results == Append(bulk.results, bulk.pending) IN
     IF bulk.idx < Len(bulk.accounts)
     THEN BulkCall(Tables, [bulk EXCEPT !.results = results, !.idx = @ + 1])
     ELSE /\ ret' = BulkFailoverResult(bulk, results)
          /\ bulk' = IF bulk.op = "bulkFailover" THEN NoFrame
                     ELSE [bulk EXCEPT !.results = results, !.phase = "incident"]
          /\ UNCHANGED <<proxies, accounts, mappings, incidents, inProgress, hpf>>
  /\ UNCHANGED <<cap, rec>>

\* scheduleMaintenance(proxyId, durationMinutes) up to its await of bulkFailover.
ScheduleMaintenance(proxyId) ==
  /\ Enter("db")
  /\ bulk = NoFrame
  /\ IF proxyId \notin Proxies
     THEN /\ ret' = [op |-> "scheduleMaintenance", proxyId |-> proxyId, threw |-> TRUE]
          /\ UNCHANGED <<proxies, accounts, mappings, incidents, inProgress, hpf, bulk>>
     ELSE BulkStart(updateProxy(Tables, proxyId, [status |-> "maintenance"]),
                    "scheduleMaintenance", proxyId)
  /\ UNCHANGED <<cap, rec>>

\* bulkFailover has returned: record the tracking incident and return.
ScheduleMaintenanceReturn ==
  /\ Resume("db")
  /\ bulk # NoFrame
  /\ bulk.phase = "incident"
  /\ SetTables(createIncident(Tables, "manual_intervention", "low", None,
                              bulk.fromProxyId, None, None, "resolved"))
  /\ ret' = [op |-> "scheduleMaintenance", proxyId |-> bulk.fromProxyId, threw |-> FALSE]
  /\ bulk' = NoFrame
  /\ UNCHANGED <<inProgress, hpf, cap, rec>>

\* incidents getIncidentsByProxy(proxyId) returns
getIncidentsByProxy(T, proxyId) ==
  {i \in 1..Len(T.incidents) :
     T.incidents[i].proxyId = proxyId \/ T.incidents[i].oldProxyId = proxyId}

RECURSIVE resolveAll(_, _)
resolveAll(T, ids) ==
  IF ids = {} THEN T
  ELSE LET i == CHOOSE k \in ids : TRUE
       IN resolveAll(resolveIncident(T, i, "Proxy recovered and passed health check",
                                     "system"), ids \ {i})

\* recoverProxy(proxyId) up to its await of the probe.
RecoverProxy(proxyId) ==
  /\ Enter("db")
  /\ rec = NoFrame
  /\ IF proxyId \notin Proxies
     THEN /\ ret' = [op |-> "recoverProxy", proxyId |-> proxyId, result |-> FALSE]
          /\ UNCHANGED rec
     ELSE /\ rec' = [op |-> "recoverProxy", proxyId |-> proxyId, proxy |-> proxies[proxyId]]
          /\ ret' = NoRet
  /\ UNCHANGED <<proxies, accounts, mappings, incidents, inProgress, hpf, bulk, cap>>

\* The probe has answered `working`.
RecoverProxyProbe(working) ==
  /\ Resume("db")
  /\ rec # NoFrame
  /\ IF working
     THEN LET T1 == updateProxy(Tables, rec.proxyId,
                                [status |-> "active",
                                 healthScore |-> Min(100, rec.proxy.healthScore + 20)])
              open == {i \in getIncidentsByProxy(T1, rec.proxyId) :
                         T1.incidents[i].status = "open"}
          IN SetTables(resolveAll(T1, open))
     ELSE UNCHANGED <<proxies, accounts, mappings, incidents>>
  /\ ret' = [op |-> "recoverProxy", proxyId |-> rec.proxyId, result |-> working]
  /\ rec' = NoFrame
  /\ UNCHANGED <<inProgress, hpf, bulk, cap>>

\* what handleProxyDegradation leaves for its caller to see: the ids its
\* loop called handleProxyFailure for and, per call, "ok" or the error
DegradationResult(frame, results) ==
  [op |-> "handleProxyDegradation", proxyId |-> frame.fromProxyId, known |-> TRUE,
   metrics |-> frame.metrics, accounts |-> frame.accounts, results |-> results,
   pre |-> frame.pre]

\* handleProxyDegradation that starts the failovers whatever the success rate
HandleProxyDegradation_AlwaysFailover(proxyId, metrics) ==
  /\ Enter("db")
  /\ bulk = NoFrame
  /\ IF proxyId \notin Proxies
     THEN /\ ret' = [op |-> "handleProxyDegradation", proxyId |-> proxyId,
                     known |-> FALSE, metrics |-> metrics, pre |-> Tables]
          /\ UNCHANGED <<proxies, accounts, mappings, incidents, inProgress, hpf, bulk>>
     ELSE LET T1 == createIncident(Tables, "proxy_degraded", metrics.severity, None,
                                   proxyId, None, None, "open")
              T2 == updateProxy(T1, proxyId,
                                [healthScore |-> Max(0, proxies[proxyId].healthScore - 15)])
              frame == [op |-> "handleProxyDegradation", phase |-> "loop",
                        fromProxyId |-> proxyId, metrics |-> metrics,
                        accounts |-> getAccountsByProxy(T2, proxyId),
                        idx |-> 1, results |-> <<>>, pending |-> "wait", pre |-> Tables]
          IN IF frame.accounts = <<>>
             THEN /\ SetTables(T2)
                  /\ ret' = DegradationResult(frame, <<>>)
                  /\ UNCHANGED <<inProgress, hpf, bulk>>
             ELSE BulkCall(T2, frame)
  /\ UNCHANGED <<cap, rec>>

\* handleProxyDegradation(proxyId, metrics) up to its return or its first
\* await: the incident, the lowered healthScore and, for
\* metrics.successRate < 50, the accounts bound to the proxy, read once, and
\* the handleProxyFailure call for the first of them.  The loop in flight
\* is kept in `bulk`, as bulkFailover's is.
HandleProxyDegradation(proxyId, metrics) ==
  /\ Enter("db")
  /\ bulk = NoFrame
  /\ IF proxyId \notin Proxies
     THEN /\ ret' = [op |-> "handleProxyDegradation", proxyId |-> proxyId,
                     known |-> FALSE, metrics |-> metrics, pre |-> Tables]
          /\ UNCHANGED <<proxies, accounts, mappings, incidents, inProgress, hpf, bulk>>
     ELSE LET T1 == createIncident(Tables, "proxy_degraded", metrics.severity, None,
                                   proxyId, None, None, "open")
              T2 == updateProxy(T1, proxyId,
                                [healthScore |-> Max(0, proxies[proxyId].healthScore - 15)])
              frame == [op |-> "handleProxyDegradation", phase |-> "loop",
                        fromProxyId |-> proxyId, metrics |-> metrics,
                        accounts |-> IF metrics.successRate < 50
                                     THEN getAccountsByProxy(T2, proxyId) ELSE <<>>,
                        idx |-> 1, results |-> <<>>, pending |-> "wait", pre |-> Tables]
          IN IF frame.accounts = <<>>
             THEN /\ SetTables(T2)
                  /\ ret' = DegradationResult(frame, <<>>)
                  /\ UNCHANGED <<inProgress, hpf, bulk>>
             ELSE BulkCall(T2, frame)
  /\ UNCHANGED <<cap, rec>>

\* The awaited handleProxyFailure has settled: the loop calls the next
\* account's handleProxyFailure, or the method returns.
HandleProxyDegradationContinue ==
  /\ Resume("db")
  /\ bulk # NoFrame
  /\ bulk.op = "handleProxyDegradation"
  /\ bulk.pending # "wait"
  /\ LET results == Append(bulk.results, bulk.pending) IN
     IF bulk.idx < Len(bulk.accounts)
     THEN BulkCall(Tables, [bulk EXCEPT !.results = results, !.idx = @ + 1])
     ELSE /\ ret' = DegradationResult(bulk, results)
          /\ bulk' = NoFrame
          /\ UNCHANGED <<proxies, accounts, mappings, incidents, inProgress, hpf>>
  /\ UNCHANGED <<cap, rec>>

\* -------------------------------------------------------- HealthMonitor

\* checkAllProxies() up to its await of the first probe: the proxy rows are
\* read once, here.
CheckAllProxies ==
  /\ Enter("db")
  /\ cap = NoFrame
  /\ cap' = [op |-> "checkAllProxies", proxies |-> proxies, idx |-> 1, results |-> <<>>]
  /\ ret' = NoRet
  /\ UNCHANGED <<proxies, accounts, mappings, incidents, inProgress, hpf, bulk, rec>>

\* checkAllProxies whose failed probe takes 20 off without the floor at 0
CheckAllProxiesProbe_NoFloor(working) ==
  /\ Resume("db")
  /\ cap # NoFrame
  /\ LET id == getAllProxies(Tables)[cap.idx]
         proxy == cap.proxies[id]
         results == Append(cap.results, working)
     IN /\ IF ~working
           THEN SetTables(createIncident(
                  updateProxy(Tables, id,
                              [status |-> "failed",
                               healthScore |-> proxy.healthScore - 20]),
                  "proxy_failure", "high", None, id, None, None, "open"))
           ELSE IF proxy.status = "failed"
           THEN SetTables(updateProxy(Tables, id,
                                      [status |-> "active",
                                       healthScore |-> Min(100, proxy.healthScore + 10)]))
           ELSE UNCHANGED <<proxies, accounts, mappings, incidents>>
        /\ IF cap.idx < Len(getAllProxies(Tables))
           THEN /\ cap' = [cap EXCEPT !.idx = @ + 1, !.results = results]
                /\ ret' = NoRet
           ELSE /\ cap' = NoFrame
                /\ ret' = [op |-> "checkAllProxies", results |-> results]
  /\ UNCHANGED <<inProgress, hpf, bulk, rec>>

\* The probe of proxies[idx] has answered `working`: the loop body after the
\* await, then the next probe is awaited or the results are returned.
CheckAllProxiesProbe(working) ==
  /\ Resume("db")
  /\ cap # NoFrame
  /\ LET id == getAllProxies(Tables)[cap.idx]
         proxy == cap.proxies[id]
         results == Append(cap.results, working)
     IN /\ IF ~working
           THEN SetTables(createIncident(
                  updateProxy(Tables, id,
                              [status |-> "failed",
                               healthScore |-> Max(0, proxy.healthScore - 20)]),
                  "proxy_failure", "high", None, id, None, None, "open"))
           ELSE IF proxy.status = "failed"
           THEN SetTables(updateProxy(Tables, id,
                                      [status |-> "active",
                                       healthScore |-> Min(100, proxy.healthScore + 10)]))
           ELSE UNCHANGED <<proxies, accounts, mappings, incidents>>
        /\ IF cap.idx < Len(getAllProxies(Tables))
           THEN /\ cap' = [cap EXCEPT !.idx = @ + 1, !.results = results]
                /\ ret' = NoRet
           ELSE /\ cap' = NoFrame
                /\ ret' = [op |-> "checkAllProxies", results |-> results]
  /\ UNCHANGED <<inProgress, hpf, bulk, rec>>

\* ------------------------------------------------ ProxyFailover.withRetry
\* withRetry(operation, context) under a config [maxRetries, retryDelayMs].
\* The frame counts the attempts (`attempt` is the loop variable), and keeps
\* for the record what a caller can observe: how often the operation was
\* invoked and the delays slept, in order.  The k-th invocation of the
\* operation resolves with <<"value", k>> or rejects with <<"error", k>>.

RECURSIVE Pow2(_)
Pow2(n) == IF n <= 0 THEN 1 ELSE 2 * Pow2(n - 1)

retryDelay_Constant(retryDelayMs, attempt) == retryDelayMs

retryDelay(retryDelayMs, attempt) == retryDelayMs * Pow2(attempt - 1)

RetryStep ==
  /\ engine = "db"
  /\ UNCHANGED <<engine, enableAutoFailover, dbVars, mgrVars, wfVars, monitor, skills, proxyMonitor>>

\* the loop test, and the invocation of the operation or the final throw
RetryLoop(f, attempt) ==
  IF attempt <= f.maxRetries
  THEN /\ retry' = [f EXCEPT !.attempt = attempt, !.phase = "operation",
                             !.calls = @ + 1]
       /\ ret' = NoRet
  ELSE /\ retry' = NoFrame
       /\ ret' = [op |-> "withRetry", threw |-> TRUE, value |-> f.lastError,
                  calls |-> f.calls, delays |-> f.delays,
                  maxRetries |-> f.maxRetries, retryDelayMs |-> f.retryDelayMs]

WithRetry(maxRetries, retryDelayMs) ==
  /\ RetryStep
  /\ retry = NoFrame
  /\ opCount < MaxOps
  /\ opCount' = opCount + 1
  /\ RetryLoop([op |-> "withRetry", maxRetries |-> maxRetries,
                retryDelayMs |-> retryDelayMs, attempt |-> 1, phase |-> "operation",
                calls |-> 0, delays |-> <<>>, lastError |-> <<"undefined">>], 1)

\* the awaited operation settles
RetryOperationSettles(ok) ==
  /\ RetryStep
  /\ retry # NoFrame
  /\ retry.phase = "operation"
  /\ UNCHANGED opCount
  /\ IF ok
     THEN /\ retry' = NoFrame
          /\ ret' = [op |-> "withRetry", threw |-> FALSE,
                     value |-> <<"value", retry.calls>>,
                     calls |-> retry.calls, delays |-> retry.delays,
                     maxRetries |-> retry.maxRetries,
                     retryDelayMs |-> retry.retryDelayMs]
     ELSE LET f == [retry EXCEPT !.lastError = <<"error", retry.calls>>] IN
          IF retry.attempt < retry.maxRetries
          THEN /\ retry' = [f EXCEPT !.phase = "sleep",
                                     !.delays = Append(@, retryDelay(f.retryDelayMs,
                                                                     f.attempt))]
               /\ ret' = NoRet
          ELSE RetryLoop(f, retry.attempt + 1)

\* the awaited sleep is over
RetrySleepDone ==
  /\ RetryStep
  /\ retry # NoFrame
  /\ retry.phase = "sleep"
  /\ UNCHANGED opCount
  /\ RetryLoop(retry, retry.attempt + 1)

\* -------------------------------------------------- AccountProxyManager
\* The manager keeps Maps of mutable records; `proxies`, `accounts`,
\* `incidents` and `inProgress` (its failoverInProgress) hold them when
\* engine = "mgr".  It keeps no mappings.  Map iteration follows insertion
\* order: ProxyOrder for the proxies, accountKeys for the accounts.

First(order, S) ==
  order[CHOOSE i \in 1..Len(order) : order[i] \in S /\ \A j \in 1..(i - 1) : order[j] \notin S]

mgrGetAccountsByProxy(T, keys, proxyId) ==
  SelectSeq(keys, LAMBDA a : T.accounts[a].proxyId = proxyId)

\* getActiveProxies().filter(spare capacity).sort(by assignedAccounts)[0]:
\* the sort is stable, so the first proxy in Map order among the least
\* loaded; the empty set stands for undefined.
mgrFindAvailableProxy(T) ==
  LET avail == {p \in Proxies : /\ T.proxies[p].status = "active"
                                /\ T.proxies[p].assignedAccounts < T.proxies[p].maxAccounts}
      least == {p \in avail : \A q \in avail :
                   T.proxies[p].assignedAccounts <= T.proxies[q].assignedAccounts}
  IN IF least = {} THEN {} ELSE {First(ProxyOrder, least)}

mgrCreateIncident(T, type, severity, accountId, proxyId, oldProxyId, newProxyId, status) ==
  [T EXCEPT !.incidents = Append(@, [type |-> type, severity |-> severity,
                                     accountId |-> accountId, proxyId |-> proxyId,
                                     oldProxyId |-> oldProxyId, newProxyId |-> newProxyId,
                                     status |-> status,
                                     resolution |-> None, resolvedBy |-> None])]

\* moveAccount that counts the account on the new proxy before it checks the
\* proxy's capacity
mgrMoveAccount_CountFirst(T, accountId, newProxyId) ==
  IF accountId \notin DOMAIN T.accounts
  THEN [T |-> T, success |-> FALSE, error |-> "account_not_found", oldProxyId |-> None]
  ELSE IF newProxyId \notin Proxies
  THEN [T |-> T, success |-> FALSE, error |-> "proxy_not_found",
        oldProxyId |-> T.accounts[accountId].proxyId]
  ELSE LET oldProxyId == T.accounts[accountId].proxyId
           T3 == [T EXCEPT !.proxies = [@ EXCEPT ![newProxyId].assignedAccounts = @ + 1]]
       IN IF T.proxies[newProxyId].assignedAccounts >= T.proxies[newProxyId].maxAccounts
          THEN [T |-> T3, success |-> FALSE, error |-> "at_capacity",
                oldProxyId |-> oldProxyId]
          ELSE [T |-> mgrCreateIncident(
                        [T3 EXCEPT !.accounts = [@ EXCEPT ![accountId].proxyId = newProxyId],
                                   !.proxies = [@ EXCEPT ![oldProxyId].assignedAccounts =
                                                           Max(0, @ - 1)]],
                        "manual_intervention", "low", accountId,
                        newProxyId, oldProxyId, newProxyId, "resolved"),
                success |-> TRUE, error |-> None, oldProxyId |-> oldProxyId]

\* moveAccount(accountId, newProxyId): the tables it leaves and its result
mgrMoveAccount(T, accountId, newProxyId) ==
  IF accountId \notin DOMAIN T.accounts
  THEN [T |-> T, success |-> FALSE, error |-> "account_not_found", oldProxyId |-> None]
  ELSE IF newProxyId \notin Proxies
  THEN [T |-> T, success |-> FALSE, error |-> "proxy_not_found",
        oldProxyId |-> T.accounts[accountId].proxyId]
  ELSE IF T.proxies[newProxyId].assignedAccounts >= T.proxies[newProxyId].maxAccounts
  THEN [T |-> T, success |-> FALSE, error |-> "at_capacity",
        oldProxyId |-> T.accounts[accountId].proxyId]
  ELSE LET oldProxyId == T.accounts[accountId].proxyId
           T1 == [T EXCEPT !.accounts = [@ EXCEPT ![accountId].proxyId = newProxyId]]
           T2 == IF oldProxyId \in Proxies
                 THEN [T1 EXCEPT !.proxies =
                         [@ EXCEPT ![oldProxyId].assignedAccounts = Max(0, @ - 1)]]
                 ELSE T1
           T3 == [T2 EXCEPT !.proxies = [@ EXCEPT ![newProxyId].assignedAccounts = @ + 1]]
       IN [T |-> mgrCreateIncident(T3, "manual_intervention", "low", accountId,
                                   newProxyId, oldProxyId, newProxyId, "resolved"),
           success |-> TRUE, error |-> None, oldProxyId |-> oldProxyId]

\* failoverAccount(accountId) once it holds the guard: it has no await, so
\* it runs to its return in one piece.
mgrFailoverAccount(T, accountId) ==
  IF accountId \notin DOMAIN T.accounts
  THEN [T |-> T, success |-> FALSE, error |-> "account_not_found",
        oldProxyId |-> None, newProxyId |-> None]
  ELSE LET oldProxyId == T.accounts[accountId].proxyId
           found == mgrFindAvailableProxy(T)
       IN IF found = {}
          THEN [T |-> mgrCreateIncident(T, "failover_triggered", "critical", accountId,
                                        oldProxyId, None, None, "open"),
                success |-> FALSE, error |-> "no_available_proxies",
                oldProxyId |-> oldProxyId, newProxyId |-> None]
          ELSE LET newProxyId == CHOOSE n \in found : TRUE
                   r == mgrMoveAccount(T, accountId, newProxyId)
               IN IF r.success
                  THEN [T |-> mgrCreateIncident(r.T, "failover_triggered", "medium",
                                                accountId, oldProxyId, oldProxyId,
                                                newProxyId, "resolved"),
                        success |-> TRUE, error |-> None,
                        oldProxyId |-> oldProxyId, newProxyId |-> newProxyId]
                  ELSE [T |-> r.T, success |-> FALSE, error |-> r.error,
                        oldProxyId |-> r.oldProxyId, newProxyId |-> None]

\* A call of failoverAccount(accountId) by `caller` ("top" or
\* "handleProxyFailure"), guard included.
CallFailoverAccount(T, accountId, caller) ==
  IF accountId \in inProgress
  THEN /\ SetTables(T)
       /\ ret' = [op |-> "failoverAccount", caller |-> caller,
                  accountId |-> accountId, success |-> FALSE,
                  oldProxyId |-> None, newProxyId |-> None,
                  error |-> "already_in_progress", pre |-> T]
       /\ UNCHANGED inProgress
  ELSE LET r == mgrFailoverAccount(T, accountId) IN
       /\ SetTables(r.T)
       /\ inProgress' = (inProgress \cup {accountId}) \ {accountId}
       /\ ret' = [op |-> "failoverAccount", caller |-> caller,
                  accountId |-> accountId, success |-> r.success, oldProxyId |-> r.oldProxyId,
                  newProxyId |-> r.newProxyId, error |-> r.error, pre |-> T]

\* createAccount(accountData): the Maps it leaves and the proxy it chose;
\* success FALSE stands for the thrown 'No available proxies' error.
mgrCreateAccount(T, keys, id) ==
  LET found == mgrFindAvailableProxy(T) IN
  IF found = {}
  THEN [T |-> T, keys |-> keys, success |-> FALSE, proxyId |-> None]
  ELSE LET availableProxy == CHOOSE n \in found : TRUE IN
       [T |-> [T EXCEPT
                 !.accounts = [a \in DOMAIN T.accounts \cup {id} |->
                                 IF a = id THEN [proxyId |-> availableProxy]
                                 ELSE T.accounts[a]],
                 !.proxies = [@ EXCEPT ![availableProxy].assignedAccounts = @ + 1]],
        keys |-> IF id \in DOMAIN T.accounts THEN keys ELSE Append(keys, id),
        success |-> TRUE, proxyId |-> availableProxy]

MgrCreateAccount(id) ==
  /\ Enter("mgr")
  /\ LET r == mgrCreateAccount(Tables, accountKeys, id) IN
     /\ SetTables(r.T)
     /\ accountKeys' = r.keys
     /\ ret' = [op |-> "createAccount", id |-> id, success |-> r.success,
                error |-> IF r.success THEN None ELSE "no_available_proxies",
                proxyId |-> r.proxyId, pre |-> Tables]
  /\ UNCHANGED <<inProgress, mpf>>

MgrMoveAccount(accountId, newProxyId) ==
  /\ Enter("mgr")
  /\ LET r == mgrMoveAccount(Tables, accountId, newProxyId) IN
     /\ SetTables(r.T)
     /\ ret' = [op |-> "moveAccount", accountId |-> accountId,
                targetProxyId |-> newProxyId, success |-> r.success,
                error |-> r.error, pre |-> Tables]
  /\ UNCHANGED <<inProgress, accountKeys, mpf>>

MgrFailoverAccount(accountId) ==
  /\ Enter("mgr")
  /\ CallFailoverAccount(Tables, accountId, "top")
  /\ UNCHANGED <<accountKeys, mpf>>

\* handleProxyFailure(proxyId) up to its first await or, with no account
\* bound, its return.
MgrHandleProxyFailure(proxyId) ==
  /\ Enter("mgr")
  /\ mpf = NoFrame
  /\ IF proxyId \notin Proxies
     THEN /\ ret' = [op |-> "mgrHandleProxyFailure", proxyId |-> proxyId, results |-> <<>>]
          /\ UNCHANGED <<proxies, accounts, incidents, inProgress, mpf>>
     ELSE LET T1 == [Tables EXCEPT !.proxies = [@ EXCEPT ![proxyId].status = "failed"]]
              T2 == mgrCreateIncident(T1, "proxy_failure", "high", None, proxyId,
                                      None, None, "open")
              accts == mgrGetAccountsByProxy(T2, accountKeys, proxyId)
          IN IF accts = <<>>
             THEN /\ SetTables(T2)
                  /\ ret' = [op |-> "mgrHandleProxyFailure", proxyId |-> proxyId,
                             results |-> <<>>]
                  /\ UNCHANGED <<inProgress, mpf>>
             ELSE /\ CallFailoverAccount(T2, accts[1], "handleProxyFailure")
                  /\ mpf' = [op |-> "mgrHandleProxyFailure", proxyId |-> proxyId,
                             accounts |-> accts, idx |-> 1,
                             results |-> <<ret'.success>>]
  /\ UNCHANGED accountKeys

\* The awaited failoverAccount has settled: the next account, or the return.
MgrHandleProxyFailureContinue ==
  /\ Resume("mgr")
  /\ mpf # NoFrame
  /\ IF mpf.idx < Len(mpf.accounts)
     THEN /\ CallFailoverAccount(Tables, mpf.accounts[mpf.idx + 1], "handleProxyFailure")
          /\ mpf' = [mpf EXCEPT !.idx = @ + 1, !.results = Append(@, ret'.success)]
     ELSE /\ ret' = [op |-> "mgrHandleProxyFailure", proxyId |-> mpf.proxyId,
                     results |-> mpf.results]
          /\ mpf' = NoFrame
          /\ UNCHANGED <<proxies, accounts, incidents, inProgress>>
  /\ UNCHANGED accountKeys

\* updateProxy(id, updates): the proxy's record with `updates` spread over
\* it; throws when the proxy is not in the Map.
mgrUpdateProxy(T, id, updates) ==
  [T EXCEPT !.proxies[id] =
     [k \in DOMAIN @ |-> IF k \in DOMAIN updates THEN updates[k] ELSE @[k]]]

MgrUpdateProxy(id, updates) ==
  /\ Enter("mgr")
  /\ IF id \in Proxies
     THEN /\ SetTables(mgrUpdateProxy(Tables, id, updates))
          /\ ret' = [op |-> "updateProxy", id |-> id, threw |-> FALSE]
     ELSE /\ SetTables(Tables)
          /\ ret' = [op |-> "updateProxy", id |-> id, threw |-> TRUE]
  /\ UNCHANGED <<inProgress, mpf, accountKeys>>

\* testProxy(proxyId) as written: the probe is simulated, so it reports
\* working for every proxy in the Map.
mgrTestProxy(T, proxyId) == proxyId \in DOMAIN T.proxies

mgrResolveOpen_None(T, proxyId) == T

\* recoverProxy's loop over getOpenIncidents()
mgrResolveOpen(T, proxyId) ==
  [T EXCEPT !.incidents =
     [k \in 1..Len(@) |->
        IF @[k].status = "open" /\ @[k].proxyId = proxyId
        THEN [@[k] EXCEPT !.status = "resolved",
                          !.resolution = "Proxy recovered and passed health check",
                          !.resolvedBy = "system"]
        ELSE @[k]]]

\* recoverProxy(proxyId) up to its await of testProxy
MgrRecoverProxy(proxyId) ==
  /\ engine = "mgr"
  /\ opCount < MaxOps
  /\ opCount' = opCount + 1
  /\ rec = NoFrame
  /\ IF proxyId \notin Proxies
     THEN /\ ret' = [op |-> "recoverProxy", proxyId |-> proxyId, result |-> FALSE]
          /\ UNCHANGED rec
     ELSE /\ rec' = [op |-> "recoverProxy", proxyId |-> proxyId,
                     working |-> mgrTestProxy(Tables, proxyId)]
          /\ ret' = NoRet
  /\ UNCHANGED <<engine, enableAutoFailover, proxies, accounts, mappings, incidents,
                 inProgress, hpf, bulk, cap, mgrVars, wfVars, retry, monitor, skills, proxyMonitor>>

\* recoverProxy after its await
MgrRecoverProxyContinue ==
  /\ engine = "mgr"
  /\ rec # NoFrame
  /\ IF rec.working
     THEN SetTables(mgrResolveOpen(
            [Tables EXCEPT !.proxies[rec.proxyId] =
               [@ EXCEPT !.status = "active",
                         !.healthScore = Min(100, @ + 20)]],
            rec.proxyId))
     ELSE SetTables(Tables)
  /\ ret' = [op |-> "recoverProxy", proxyId |-> rec.proxyId, result |-> rec.working]
  /\ rec' = NoFrame
  /\ UNCHANGED <<engine, enableAutoFailover, opCount, inProgress, hpf, bulk, cap, mgrVars,
                 wfVars, retry, monitor, skills, proxyMonitor>>

\* ------------------------------------------------ AccountProxyWorkflows
\* A workflow function awaits executeStep for each of its steps in turn.
\* executeStep pushes the step as in_progress and calls the step's operation,
\* which runs up to its first await; executeStep then awaits it, stamps the
\* step completed or failed, and returns or rethrows to the workflow function.
\* A frame's phase says where the workflow is suspended:
\*   "probe"      the operation awaits manager.testProxy,
\*   "operation"  executeStep awaits the operation, settled with `outcome`,
\*   "settled"    the workflow function awaits executeStep.

OnboardingSteps == <<"validate", "check_proxies", "create_account",
                     "verify_assignment", "health_check", "complete">>

\* A top-level call of a workflow function.
EnterWf ==
  /\ engine = "mgr"
  /\ opCount < MaxOps
  /\ opCount' = opCount + 1
  /\ UNCHANGED <<engine, enableAutoFailover, mappings, hpf, bulk, cap, rec, mpf, inProgress,
                 retry, monitor, skills, proxyMonitor>>

\* A step of a workflow function already in flight.
ResumeWf ==
  /\ engine = "mgr"
  /\ UNCHANGED <<engine, enableAutoFailover, opCount, mappings, hpf, bulk, cap, rec, mpf,
                 inProgress, retry, monitor, skills, proxyMonitor>>

onboardingOperation_EarlyCreate(T, keys, name, f) ==
  LET r == mgrCreateAccount(T, keys, f.accountId) IN
  [T |-> IF name = "validate" THEN r.T ELSE T,
   keys |-> IF name = "validate" THEN r.keys ELSE keys,
   outcome |-> IF name = "validate" /\ ~f.valid THEN "missing_required_fields" ELSE "ok"]

\* The operation of onboarding step `name`, up to its return, throw or await:
\* the Maps it leaves, and outcome "ok", "await" or the error thrown.
onboardingOperation(T, keys, name, f) ==
  CASE name = "validate" ->
         [T |-> T, keys |-> keys,
          outcome |-> IF f.valid THEN "ok" ELSE "missing_required_fields"]
    [] name = "check_proxies" ->
         [T |-> T, keys |-> keys,
          outcome |-> IF mgrFindAvailableProxy(T) = {} THEN "no_available_proxies"
                      ELSE "ok"]
    [] name = "create_account" ->
         LET r == mgrCreateAccount(T, keys, f.accountId) IN
         [T |-> r.T, keys |-> r.keys,
          outcome |-> IF r.success THEN "ok" ELSE "no_available_proxies"]
    [] name = "verify_assignment" ->
         [T |-> T, keys |-> keys,
          outcome |-> IF f.accountId \in DOMAIN T.accounts THEN "ok"
                      ELSE "assignment_failed"]
    [] name = "health_check" ->
         [T |-> T, keys |-> keys,
          outcome |-> IF /\ f.accountId \in DOMAIN T.accounts
                         /\ T.accounts[f.accountId].proxyId \in Proxies
                      THEN "await" ELSE "ok"]
    [] name = "complete" ->
         [T |-> T, keys |-> keys, outcome |-> "ok"]

RecoverySteps == <<"verify_proxy", "test_proxy", "recover", "verify_recovery">>

\* The operation of recovery step `name`, up to its return, throw or await.
\* verify_proxy throws only when the proxy is missing; test_proxy and
\* verify_recovery await manager.testProxy and recover awaits
\* manager.recoverProxy, which awaits testProxy in turn.
recoveryOperation(T, keys, name, f) ==
  [T |-> T, keys |-> keys,
   outcome |-> IF name = "verify_proxy"
               THEN (IF f.proxyId \in DOMAIN T.proxies THEN "ok" ELSE "proxy_not_found")
               ELSE "await"]

MaintenanceSteps == <<"reset_actions", "health_checks", "test_proxies", "check_incidents">>

\* The operation of daily-maintenance step `name`, up to its return, throw
\* or await.  reset_actions zeroes actionsToday, a column the Maps of the
\* model do not carry, and check_incidents only reads; health_checks awaits
\* manager.runHealthCheck and test_proxies awaits manager.testProxy for
\* every proxy.
maintenanceOperation(T, keys, name, f) ==
  [T |-> T, keys |-> keys,
   outcome |-> IF name \in {"health_checks", "test_proxies"} THEN "await" ELSE "ok"]

\* the workflow functions with their last declared step left out
workflowSteps_NoLast(f) ==
  LET steps == IF f.op = "onboardAccount" THEN OnboardingSteps
               ELSE IF f.op = "recoverProxy" THEN RecoverySteps
               ELSE MaintenanceSteps
  IN SubSeq(steps, 1, Len(steps) - 1)

\* the steps of the workflow function of frame f, and their operations
workflowSteps(f) ==
  IF f.op = "onboardAccount" THEN OnboardingSteps
  ELSE IF f.op = "recoverProxy" THEN RecoverySteps
  ELSE MaintenanceSteps

stepOperation(T, keys, name, f) ==
  IF f.op = "onboardAccount" THEN onboardingOperation(T, keys, name, f)
  ELSE IF f.op = "recoverProxy" THEN recoveryOperation(T, keys, name, f)
  ELSE maintenanceOperation(T, keys, name, f)

\* executeStep(workflow, name, operation) up to its await of the operation
StartStep(w, wf, f, name) ==
  LET r == stepOperation(Tables, accountKeys, name, f) IN
  /\ workflows' = [x \in DOMAIN workflows \cup {w} |->
                     IF x = w
                     THEN [wf EXCEPT !.steps =
                             Append(@, [name |-> name, status |-> "in_progress",
                                        error |-> None])]
                     ELSE workflows[x]]
  /\ SetTables(r.T)
  /\ accountKeys' = r.keys
  /\ wfr' = [wfr EXCEPT ![w] =
               [f EXCEPT !.phase = IF r.outcome = "await" THEN "probe" ELSE "operation",
                         !.outcome = r.outcome]]
  /\ ret' = NoRet

\* onboardAccount(config) up to its first await: createWorkflow, then the
\* first executeStep.  `valid` says whether config carries its required fields.
OnboardAccount(accountId, valid) ==
  /\ EnterWf
  /\ WorkflowIds \ DOMAIN workflows # {}
  /\ \E w \in WorkflowIds :
       /\ w = First(WorkflowOrder, WorkflowIds \ DOMAIN workflows)
       /\ StartStep(w, [type |-> "onboarding", status |-> "running", steps |-> <<>>,
                        accountId |-> accountId],
                    [op |-> "onboardAccount", accountId |-> accountId, valid |-> valid,
                     phase |-> "operation", outcome |-> "ok"],
                    OnboardingSteps[1])

\* manager.testProxy, awaited by the health_check operation, has settled;
\* `fault` is memory.store throwing inside it (testProxy persists on both of
\* its paths, so the error leaves it).
HealthCheckProbe(w, fault) ==
  /\ ResumeWf
  /\ wfr[w] # NoFrame
  /\ wfr[w].phase = "probe"
  /\ workflows[w].steps[Len(workflows[w].steps)].name # "recover"
  /\ wfr' = [wfr EXCEPT ![w] = [@ EXCEPT !.phase = "operation",
                                         !.outcome = IF fault THEN "storage_error"
                                                     ELSE "ok"]]
  /\ ret' = NoRet
  /\ UNCHANGED <<proxies, accounts, incidents, accountKeys, workflows>>

\* recoverProxy(proxyId) of the workflows up to its first await:
\* createWorkflow, then the first executeStep.  The frame keeps the Maps as
\* they were at the call.
RecoverProxyWorkflow(proxyId) ==
  /\ EnterWf
  /\ WorkflowIds \ DOMAIN workflows # {}
  /\ \E w \in WorkflowIds :
       /\ w = First(WorkflowOrder, WorkflowIds \ DOMAIN workflows)
       /\ StartStep(w, [type |-> "recovery", status |-> "running", steps |-> <<>>,
                        proxyId |-> proxyId],
                    [op |-> "recoverProxy", proxyId |-> proxyId, pre |-> Tables,
                     phase |-> "operation", outcome |-> "ok"],
                    RecoverySteps[1])

\* runDailyMaintenance() up to its first await: createWorkflow, then the
\* first executeStep.
RunDailyMaintenance ==
  /\ EnterWf
  /\ WorkflowIds \ DOMAIN workflows # {}
  /\ \E w \in WorkflowIds :
       /\ w = First(WorkflowOrder, WorkflowIds \ DOMAIN workflows)
       /\ StartStep(w, [type |-> "maintenance", status |-> "running", steps |-> <<>>],
                    [op |-> "runDailyMaintenance", phase |-> "operation",
                     outcome |-> "ok"],
                    MaintenanceSteps[1])

\* manager.recoverProxy, awaited by the recover operation, after its own
\* await of testProxy: a proxy that answers is set active with 20 more
\* healthScore and its open incidents are resolved; the operation throws
\* when recoverProxy returned false.
RecoverStepProbe(w) ==
  /\ ResumeWf
  /\ wfr[w] # NoFrame
  /\ wfr[w].phase = "probe"
  /\ workflows[w].steps[Len(workflows[w].steps)].name = "recover"
  /\ LET p == wfr[w].proxyId
         working == mgrTestProxy(Tables, p)
     IN /\ IF working
           THEN SetTables(mgrResolveOpen(
                  [Tables EXCEPT !.proxies[p] =
                     [@ EXCEPT !.status = "active",
                               !.healthScore = Min(100, @ + 20)]], p))
           ELSE SetTables(Tables)
        /\ wfr' = [wfr EXCEPT ![w] = [@ EXCEPT !.phase = "operation",
                                               !.outcome = IF working THEN "ok"
                                                           ELSE "recovery_failed"]]
  /\ ret' = NoRet
  /\ UNCHANGED <<accountKeys, workflows>>

\* executeStep after its await: the step is stamped completed or failed
ExecuteStepSettle(w) ==
  /\ ResumeWf
  /\ wfr[w] # NoFrame
  /\ wfr[w].phase = "operation"
  /\ workflows' = [workflows EXCEPT ![w].steps[Len(workflows[w].steps)] =
                     IF wfr[w].outcome = "ok"
                     THEN [@ EXCEPT !.status = "completed"]
                     ELSE [@ EXCEPT !.status = "failed", !.error = wfr[w].outcome]]
  /\ wfr' = [wfr EXCEPT ![w] = [@ EXCEPT !.phase = "settled"]]
  /\ ret' = NoRet
  /\ UNCHANGED <<proxies, accounts, incidents, accountKeys>>

\* failWorkflow(workflow, error)'s incident: the structured fields
\* createIncident stores, with the title and description it is given
failWorkflowIncident(wf, error) ==
  [type |-> "manual_intervention", severity |-> "high", accountId |-> None,
   proxyId |-> None, oldProxyId |-> None, newProxyId |-> None, status |-> "open",
   resolution |-> None, resolvedBy |-> None,
   title |-> <<"Workflow", wf.type, "failed">>, description |-> <<error>>]

WorkflowContinue_NoCatch(w) ==
  /\ ResumeWf
  /\ wfr[w] # NoFrame
  /\ wfr[w].phase = "settled"
  /\ LET wf == workflows[w]
     IN IF Len(wf.steps) < Len(workflowSteps(wfr[w]))
        THEN StartStep(w, wf, wfr[w], workflowSteps(wfr[w])[Len(wf.steps) + 1])
        ELSE /\ workflows' = [workflows EXCEPT ![w].status = "completed"]
             /\ wfr' = [wfr EXCEPT ![w] = NoFrame]
             /\ ret' = [op |-> wfr[w].op, workflowId |-> w, threw |-> FALSE,
                        error |-> None]
             /\ UNCHANGED <<proxies, accounts, incidents, accountKeys>>

\* The workflow function after its await of executeStep: the catch block
\* (failWorkflow, rethrow), the next executeStep, or completeWorkflow.
WorkflowContinue(w) ==
  /\ ResumeWf
  /\ wfr[w] # NoFrame
  /\ wfr[w].phase = "settled"
  /\ LET wf == workflows[w]
         last == wf.steps[Len(wf.steps)]
     IN IF last.status = "failed"
        THEN /\ workflows' = [workflows EXCEPT ![w].status = "failed"]
             /\ incidents' = Append(incidents, failWorkflowIncident(wf, last.error))
             /\ wfr' = [wfr EXCEPT ![w] = NoFrame]
             /\ ret' = [op |-> wfr[w].op, workflowId |-> w, threw |-> TRUE,
                        error |-> last.error]
             /\ UNCHANGED <<proxies, accounts, accountKeys>>
        ELSE IF Len(wf.steps) < Len(workflowSteps(wfr[w]))
        THEN StartStep(w, wf, wfr[w], workflowSteps(wfr[w])[Len(wf.steps) + 1])
        ELSE /\ workflows' = [workflows EXCEPT ![w].status = "completed"]
             /\ wfr' = [wfr EXCEPT ![w] = NoFrame]
             /\ ret' = [op |-> wfr[w].op, workflowId |-> w, threw |-> FALSE,
                        error |-> None]
             /\ UNCHANGED <<proxies, accounts, incidents, accountKeys>>

\* ------------------------------------------------- calculateHealthScore
\* The factors are [proxyWorking, accountStatus, actionsToday,
\* dailyActionLimit, spamScore, issues]; the caller passes
\* actionRatio = actionsToday / dailyActionLimit, a JavaScript division:
\* x/0 is Infinity for x > 0 and 0/0 is NaN, which is not > 0.9.

actionRatioAbove90(f) ==
  IF f.dailyActionLimit = 0 THEN f.actionsToday > 0
  ELSE 10 * f.actionsToday > 9 * f.dailyActionLimit

\* calculateHealthScore whose result is not bounded below
calculateHealthScore_NoFloor(f) ==
  LET s1 == 100 - (IF ~f.proxyWorking THEN 40 ELSE 0)
      s2 == s1 - (IF f.accountStatus = "suspended" THEN 30 ELSE 0)
      s3 == s2 - (IF f.accountStatus = "banned" THEN 50 ELSE 0)
      s4 == s3 - (IF actionRatioAbove90(f) THEN 10 ELSE 0)
      s5 == s4 - (f.spamScore \div 10)
      s6 == s5 - f.issues * 2
  IN Min(100, s6)

\* calculateHealthScore that takes 50 off for a proxy that is not working
calculateHealthScore_ProxyWeight50(f) ==
  LET s1 == 100 - (IF ~f.proxyWorking THEN 50 ELSE 0)
      s2 == s1 - (IF f.accountStatus = "suspended" THEN 30 ELSE 0)
      s3 == s2 - (IF f.accountStatus = "banned" THEN 50 ELSE 0)
      s4 == s3 - (IF actionRatioAbove90(f) THEN 10 ELSE 0)
      s5 == s4 - (f.spamScore \div 10)
      s6 == s5 - f.issues * 2
  IN Max(0, Min(100, s6))

\* HealthMonitor.calculateHealthScore: Math.floor is \div for integers
calculateHealthScore(f) ==
  LET s1 == 100 - (IF ~f.proxyWorking THEN 40 ELSE 0)
      s2 == s1 - (IF f.accountStatus = "suspended" THEN 30 ELSE 0)
      s3 == s2 - (IF f.accountStatus = "banned" THEN 50 ELSE 0)
      s4 == s3 - (IF actionRatioAbove90(f) THEN 10 ELSE 0)
      s5 == s4 - (f.spamScore \div 10)
      s6 == s5 - f.issues * 2
  IN Max(0, Min(100, s6))

\* AccountProxyManager.calculateHealthScore: the same statements
mgrCalculateHealthScore(f) ==
  LET s1 == 100 - (IF ~f.proxyWorking THEN 40 ELSE 0)
      s2 == s1 - (IF f.accountStatus = "suspended" THEN 30 ELSE 0)
      s3 == s2 - (IF f.accountStatus = "banned" THEN 50 ELSE 0)
      s4 == s3 - (IF actionRatioAbove90(f) THEN 10 ELSE 0)
      s5 == s4 - (f.spamScore \div 10)
      s6 == s5 - f.issues * 2
  IN Max(0, Min(100, s6))

CalculateHealthScore(f) ==
  /\ ret' = [op |-> "calculateHealthScore", factors |-> f,
             score |-> IF engine = "db" THEN calculateHealthScore(f)
                       ELSE mgrCalculateHealthScore(f)]
  /\ UNCHANGED <<engine, enableAutoFailover, dbVars, mgrVars, wfVars, retry, monitor, skills, proxyMonitor, opCount>>

\* ------------------------------------------------------- HealthMonitor

\* the columns createAccount inserts next to proxy_id
NewAccountColumns == [status |-> "active", healthScore |-> DefaultHealthScore,
                      actionsToday |-> 0, spamScore |-> 0,
                      dailyActionLimit |-> WarmupActionLimit, phase |-> "warmup"]

\* mapAccount: the row of account `a` as the monitor reads it
getAccount(T, M, a) ==
  LET c == IF a \in DOMAIN M.columns THEN M.columns[a] ELSE NewAccountColumns
  IN [id |-> a, proxyId |-> T.accounts[a].proxyId, status |-> c.status,
      healthScore |-> c.healthScore, actionsToday |-> c.actionsToday,
      spamScore |-> c.spamScore, dailyActionLimit |-> c.dailyActionLimit,
      phase |-> c.phase]

\* getActiveAccounts without its WHERE clause
getActiveAccounts_AnyStatus(T, M) ==
  OrderBy(AccountOrder, DOMAIN T.accounts)

\* SELECT * FROM accounts WHERE status = 'active' ORDER BY id
getActiveAccounts(T, M) ==
  OrderBy(AccountOrder, {a \in DOMAIN T.accounts : getAccount(T, M, a).status = "active"})

\* DatabaseClient.updateAccount: UPDATE accounts SET ... WHERE id = ?, which
\* touches no row when the id is unknown.  `updates` carries columns of
\* NewAccountColumns only.
updateAccount(T, M, id, updates) ==
  IF id \notin DOMAIN T.accounts THEN M
  ELSE LET old == getAccount(T, M, id)
           new == [c \in DOMAIN NewAccountColumns |->
                     IF c \in DOMAIN updates THEN updates[c] ELSE old[c]]
       IN [M EXCEPT !.columns =
             [a \in DOMAIN M.columns \cup {id} |-> IF a = id THEN new ELSE M.columns[a]]]

UpdateAccountCall(id, updates) ==
  /\ monitor.run = NoFrame
  /\ monitor' = updateAccount(Tables, monitor, id, updates)
  /\ ret' = [op |-> "updateAccount", id |-> id, threw |-> FALSE]
  /\ UNCHANGED dbVars

\* ------------------------------------------------------- advancePhase

phases == <<"warmup", "soft", "growth", "full">>

\* phases.indexOf(phase), counted from 1; 0 when absent
indexOf(phase) ==
  IF phase \in Range(phases) THEN CHOOSE i \in 1..Len(phases) : phases[i] = phase ELSE 0

getActionLimitForPhase(phase) ==
  CASE phase = "warmup" -> WarmupActionLimit
    [] phase = "soft" -> SoftActionLimit
    [] phase = "growth" -> GrowthActionLimit
    [] phase = "full" -> FullActionLimit

\* advancePhase that moves the phase and leaves dailyActionLimit alone
advancePhase_KeepLimit(T, M, accountId) ==
  LET currentIndex == indexOf(getAccount(T, M, accountId).phase)
  IN IF currentIndex < Len(phases)
     THEN updateAccount(T, M, accountId, [phase |-> phases[currentIndex + 1]])
     ELSE M

\* advancePhase(accountId) for an account that exists: the columns it leaves
advancePhase(T, M, accountId) ==
  LET currentIndex == indexOf(getAccount(T, M, accountId).phase)
  IN IF currentIndex < Len(phases)
     THEN LET newPhase == phases[currentIndex + 1]
          IN updateAccount(T, M, accountId,
                           [phase |-> newPhase,
                            dailyActionLimit |-> getActionLimitForPhase(newPhase)])
     ELSE M

\* returns null for an unknown id, and the account's row otherwise
AdvancePhase(accountId) ==
  /\ monitor.run = NoFrame
  /\ IF accountId \notin DOMAIN accounts
     THEN /\ ret' = [op |-> "advancePhase", accountId |-> accountId, found |-> FALSE,
                     pre |-> [tables |-> Tables, monitor |-> monitor]]
          /\ UNCHANGED monitor
     ELSE /\ monitor' = advancePhase(Tables, monitor, accountId)
          /\ ret' = [op |-> "advancePhase", accountId |-> accountId, found |-> TRUE,
                     account |-> getAccount(Tables, monitor', accountId),
                     pre |-> [tables |-> Tables, monitor |-> monitor]]
  /\ UNCHANGED dbVars

\* checkAccountHealth(account) from the answer of its proxy test on: the
\* issues it collects and the score.  `stale` says that the account's last
\* action is more than 48 hours old; checkAccountStatus returns the status
\* of the row that was passed in.
checkAccountHealth(account, working, stale) ==
  LET issues == (IF ~working THEN <<"Proxy failed">> ELSE <<>>)
                \o (IF account.status # "active" THEN <<"Account status">> ELSE <<>>)
                \o (IF account.actionsToday >= account.dailyActionLimit
                    THEN <<"Daily action limit reached">> ELSE <<>>)
                \o (IF account.spamScore > 70 THEN <<"High spam score">> ELSE <<>>)
                \o (IF stale THEN <<"No activity">> ELSE <<>>)
  IN [accountId |-> account.id, proxyId |-> account.proxyId,
      proxyWorking |-> working, accountStatus |-> account.status,
      healthScore |-> calculateHealthScore(
                        [proxyWorking |-> working, accountStatus |-> account.status,
                         actionsToday |-> account.actionsToday,
                         dailyActionLimit |-> account.dailyActionLimit,
                         spamScore |-> account.spamScore, issues |-> Len(issues)]),
      issues |-> issues]

\* The body of runDailyHealthCheck's loop after checkAccountHealth returned
\* `result`: logHealthCheck, updateAccount, then the alert and the incident.
\* Gives the tables and the monitor it leaves.  HealthMonitor.createIncident
\* derives the severity from the fixed number 25.
dailyRecord(T, M, account, result) ==
  LET M1 == [M EXCEPT !.logs = Append(@, [accountId |-> result.accountId,
                                           proxyId |-> result.proxyId,
                                           checkType |-> "full",
                                           proxyWorking |-> result.proxyWorking,
                                           accountStatus |-> result.accountStatus,
                                           healthScore |-> result.healthScore,
                                           issues |-> result.issues])]
      M2 == updateAccount(T, M1, account.id, [healthScore |-> result.healthScore])
      alert(level) == [level |-> level, accountId |-> account.id,
                       healthScore |-> result.healthScore]
  IN IF result.healthScore < M.config.criticalThreshold
     THEN [tables |-> createIncident(T, "health_check_failed",
                                     IF result.healthScore < 25 THEN "critical" ELSE "high",
                                     account.id, account.proxyId, None, None, "open"),
           monitor |-> [M2 EXCEPT !.alerts = Append(@, alert("CRITICAL"))]]
     ELSE IF result.healthScore < M.config.alertThreshold
     THEN [tables |-> T, monitor |-> [M2 EXCEPT !.alerts = Append(@, alert("WARNING"))]]
     ELSE [tables |-> T, monitor |-> M2]

\* runDailyHealthCheck up to its first await: the active accounts are read
\* once, and the call is suspended in the proxy test of the first of them, or
\* has returned when there is none.
RunDailyHealthCheck ==
  /\ monitor.run = NoFrame
  /\ LET T == Tables
         ids == getActiveAccounts(T, monitor)
         rows == [k \in 1..Len(ids) |-> getAccount(T, monitor, ids[k])]
         pre == [tables |-> T, monitor |-> monitor]
     IN IF rows = <<>>
        THEN /\ ret' = [op |-> "runDailyHealthCheck", results |-> <<>>, pre |-> pre]
             /\ UNCHANGED monitor
        ELSE /\ monitor' = [monitor EXCEPT !.run =
                              [op |-> "runDailyHealthCheck", accounts |-> rows,
                               idx |-> 1, results |-> <<>>, pre |-> pre]]
             /\ ret' = [op |-> "runDailyHealthCheck", suspended |-> TRUE]
  /\ UNCHANGED dbVars

\* The proxy test of the account at hand answers; the loop body runs and the
\* call is suspended in the next account's proxy test or returns its results.
\* sendAlert awaits nothing that can be delayed: its callbacks are
\* synchronous, so its await is taken within this step.
DailyHealthCheckProbe(working, stale) ==
  /\ monitor.run # NoFrame
  /\ LET f == monitor.run
         account == f.accounts[f.idx]
         result == checkAccountHealth(account, working, stale)
         after == dailyRecord(Tables, monitor, account, result)
         results == Append(f.results, result)
     IN /\ SetTables(after.tables)
        /\ IF f.idx < Len(f.accounts)
           THEN /\ monitor' = [after.monitor EXCEPT !.run =
                                 [f EXCEPT !.idx = f.idx + 1, !.results = results]]
                /\ ret' = [op |-> "runDailyHealthCheck", suspended |-> TRUE]
           ELSE /\ monitor' = [after.monitor EXCEPT !.run = NoFrame]
                /\ ret' = [op |-> "runDailyHealthCheck", results |-> results,
                           pre |-> f.pre]
  /\ UNCHANGED <<inProgress, hpf, bulk, cap, rec>>

\* ------------------------------------------------------- SkillRegistry
\* A registration carries an id and a version; of a Skill the model keeps
\* the version and the status.

\* register(registration): builds the Skill (status stopped) and stores it
\* under registration.id with Map.set, which replaces an entry of that id.
register(S, id, version) ==
  [k \in DOMAIN S \cup {id} |->
     IF k = id THEN [version |-> version, status |-> "stopped"] ELSE S[k]]

RegistryStep ==
  /\ opCount < MaxRegistryOps
  /\ opCount' = opCount + 1
  /\ UNCHANGED <<engine, enableAutoFailover, dbVars, mgrVars, wfVars, retry, monitor, proxyMonitor>>

Register(id, version) ==
  /\ RegistryStep
  /\ skills' = register(skills, id, version)
  /\ ret' = [op |-> "register", id |-> id, version |-> version, threw |-> FALSE,
             pre |-> skills]

\* start(skillId): false for an unknown id, else the skill is set running
StartSkill(id) ==
  /\ RegistryStep
  /\ skills' = IF id \in DOMAIN skills THEN [skills EXCEPT ![id].status = "running"]
               ELSE skills
  /\ ret' = [op |-> "start", id |-> id, result |-> id \in DOMAIN skills]

\* unregister(skillId): false for an unknown id, else the entry is deleted
Unregister(id) ==
  /\ RegistryStep
  /\ skills' = [k \in DOMAIN skills \ {id} |-> skills[k]]
  /\ ret' = [op |-> "unregister", id |-> id, result |-> id \in DOMAIN skills]

\* ------------------------------------------------------- specifications

Next ==
  \/ \E id \in Accounts : CreateAccount(id)
  \/ \E a \in Accounts, p \in Proxies \cup {UnknownProxy} : MoveAccount(a, p)
  \/ RebalanceMappings
  \/ \E a \in Accounts : HandleProxyFailure(a)
  \/ \E a \in Accounts : HandleProxyFailureReturn(a)
  \/ \E a \in Accounts : HandleProxyFailureThrow(a)
  \/ \E p \in Proxies : BulkFailover(p)
  \/ BulkFailoverContinue
  \/ \E p \in Proxies \cup {UnknownProxy} : ScheduleMaintenance(p)
  \/ ScheduleMaintenanceReturn
  \/ \E p \in Proxies \cup {UnknownProxy} : RecoverProxy(p)
  \/ \E w \in BOOLEAN : RecoverProxyProbe(w)
  \/ \E id \in Accounts : MgrCreateAccount(id)
  \/ \E a \in Accounts, p \in Proxies \cup {UnknownProxy} : MgrMoveAccount(a, p)
  \/ \E a \in Accounts : MgrFailoverAccount(a)
  \/ \E p \in Proxies \cup {UnknownProxy} : MgrHandleProxyFailure(p)
  \/ MgrHandleProxyFailureContinue

Spec == Init /\ [][Next]_vars

\* No call is suspended at an await.
Idle ==
  /\ \A a \in Accounts : hpf[a] = NoFrame
  /\ bulk = NoFrame
  /\ cap = NoFrame
  /\ rec = NoFrame
  /\ mpf = NoFrame

\* The same calls, each started only once the previous one has returned.
NextSeq ==
  \/ Idle /\ \E id \in Accounts : CreateAccount(id)
  \/ Idle /\ \E a \in Accounts, p \in Proxies \cup {UnknownProxy} : MoveAccount(a, p)
  \/ Idle /\ RebalanceMappings
  \/ Idle /\ \E a \in Accounts : HandleProxyFailure(a)
  \/ \E a \in Accounts : HandleProxyFailureReturn(a)
  \/ \E a \in Accounts : HandleProxyFailureThrow(a)
  \/ Idle /\ \E p \in Proxies : BulkFailover(p)
  \/ BulkFailoverContinue
  \/ Idle /\ \E p \in Proxies \cup {UnknownProxy} : ScheduleMaintenance(p)
  \/ ScheduleMaintenanceReturn
  \/ Idle /\ \E p \in Proxies \cup {UnknownProxy} : RecoverProxy(p)
  \/ \E w \in BOOLEAN : RecoverProxyProbe(w)
  \/ Idle /\ \E id \in Accounts : MgrCreateAccount(id)
  \/ Idle /\ \E a \in Accounts, p \in Proxies \cup {UnknownProxy} : MgrMoveAccount(a, p)
  \/ Idle /\ \E a \in Accounts : MgrFailoverAccount(a)
  \/ Idle /\ \E p \in Proxies \cup {UnknownProxy} : MgrHandleProxyFailure(p)
  \/ MgrHandleProxyFailureContinue

SpecSeq == Init /\ [][NextSeq]_vars

\* Proxies fail, degrade and are recovered, one call at a time.
LoweredHealthScore == 70

NextRecover ==
  \/ Idle /\ \E id \in Accounts : CreateAccount(id)
  \/ Idle /\ \E a \in Accounts : HandleProxyFailure(a)
  \/ \E a \in Accounts : HandleProxyFailureReturn(a)
  \/ \E a \in Accounts : HandleProxyFailureThrow(a)
  \/ Idle /\ \E p \in Proxies \cup {UnknownProxy} : 
       HandleProxyDegradation(p, [severity |-> "medium", successRate |-> 50])
  \/ Idle /\ \E p \in Proxies \cup {UnknownProxy} : RecoverProxy(p)
  \/ \E w \in BOOLEAN : RecoverProxyProbe(w)
  \/ Idle /\ \E id \in Accounts : MgrCreateAccount(id)
  \/ Idle /\ \E p \in Proxies : MgrHandleProxyFailure(p)
  \/ MgrHandleProxyFailureContinue
  \/ Idle /\ \E p \in Proxies : MgrUpdateProxy(p, [healthScore |-> LoweredHealthScore])
  \/ Idle /\ \E p \in Proxies \cup {UnknownProxy} : MgrRecoverProxy(p)
  \/ MgrRecoverProxyContinue

SpecRecover == Init /\ [][NextRecover]_vars

\* Degradation reports against the database engine, calls one at a time:
\* success rates on both sides of the limit of 50, and proxies whose
\* healthScore was set below 15 beforehand.
DegradationMetrics == {[severity |-> "medium", successRate |-> 50],
                       [severity |-> "high", successRate |-> 49]}

DegradedHealthScore == 10

InitDegrade == Init /\ engine = "db"

NextDegrade ==
  \/ Idle /\ \E id \in Accounts : CreateAccount(id)
  \/ Idle /\ \E p \in Proxies \cup {UnknownProxy}, m \in DegradationMetrics :
       HandleProxyDegradation(p, m)
  \/ HandleProxyDegradationContinue
  \/ \E a \in Accounts : HandleProxyFailureReturn(a)
  \/ \E a \in Accounts : HandleProxyFailureThrow(a)
  \/ Idle /\ \E p \in Proxies :
       Enter("db") /\ UpdateProxyCall(p, [healthScore |-> DegradedHealthScore])

SpecDegrade == InitDegrade /\ [][NextDegrade]_vars

\* An empty fleet filled up: createAccount only, with more ids than the
\* fleet has slots.
FillOrder == AccountOrder \o <<"a4", "a5">>
MaxCreates == 5

InitFill == Init /\ engine = "db" /\ enableAutoFailover

FillCreateAccount(id) ==
  /\ engine = "db"
  /\ opCount < MaxCreates
  /\ opCount' = opCount + 1
  /\ UNCHANGED <<engine, enableAutoFailover, mgrVars, wfVars, retry, monitor, skills, proxyMonitor>>
  /\ CreateAccountCall(id)

NextFill == \E id \in Range(FillOrder) : FillCreateAccount(id)

SpecFill == InitFill /\ [][NextFill]_vars

\* A fleet whose proxies have their capacity lowered under the accounts
\* they hold, and are then rebalanced.
LoweredMaxAccounts == 1
MaxRebalanceOps == 5

InitRebalance == Init /\ engine = "db" /\ enableAutoFailover

\* a top-level call in the rebalancing scenario
EnterRebalance ==
  /\ engine = "db"
  /\ opCount < MaxRebalanceOps
  /\ opCount' = opCount + 1
  /\ UNCHANGED <<engine, enableAutoFailover, mgrVars, wfVars, retry, monitor, skills, proxyMonitor>>

NextRebalance ==
  \/ \E id \in Accounts : EnterRebalance /\ CreateAccountCall(id)
  \/ \E p \in Proxies, m \in {0, LoweredMaxAccounts} :
       EnterRebalance /\ UpdateProxyCall(p, [maxAccounts |-> m])
  \/ EnterRebalance /\ RebalanceMappingsCall
  \/ EnterRebalance /\ ValidateMappingsCall

SpecRebalance == InitRebalance /\ [][NextRebalance]_vars

\* calculateHealthScore evaluated over a grid of factors, in either engine.
AccountStatuses == {"active", "suspended", "banned", "unknown"}
ActionCounts == {0, 5, 10}
ActionLimits == {0, 10}
SpamScores == {-5, 9, 30, 100}
MaxIssues == 2

HealthFactors ==
  [proxyWorking : BOOLEAN, accountStatus : AccountStatuses,
   actionsToday : ActionCounts, dailyActionLimit : ActionLimits,
   spamScore : SpamScores, issues : 0..MaxIssues]

NextScore == \E f \in HealthFactors : CalculateHealthScore(f)

InitScore == Init /\ enableAutoFailover

SpecScore == InitScore /\ [][NextScore]_vars

\* A SkillRegistry and its callers.
InitRegistry == Init /\ engine = "db" /\ enableAutoFailover

NextRegistry ==
  \/ \E id \in SkillIds, v \in SkillVersions : Register(id, v)
  \/ \E id \in SkillIds : StartSkill(id)
  \/ \E id \in SkillIds : Unregister(id)

SpecRegistry == InitRegistry /\ [][NextRegistry]_vars

\* The daily health check, calls one at a time, over accounts whose columns
\* are set through DatabaseClient.updateAccount within the schema's CHECK
\* constraints, by a monitor constructed with the default thresholds or
\* with a critical threshold of RaisedCriticalThreshold.
RaisedCriticalThreshold == 33
MaxDailyOps == 6
MaxDailyLogs == 2                       \* a run starts while fewer logs are kept
DailyAccounts == {AccountOrder[1], AccountOrder[2]}

AccountUpdates == {[status |-> "suspended"],
                   [actionsToday |-> WarmupActionLimit, spamScore |-> 100]}

InitDaily ==
  /\ engine = "db"
  /\ enableAutoFailover = TRUE
  /\ proxies = [p \in Proxies |-> InitProxy]
  /\ accounts = <<>>
  /\ mappings = <<>>
  /\ incidents = <<>>
  /\ inProgress = {}
  /\ hpf = [a \in Accounts |-> NoFrame]
  /\ bulk = NoFrame
  /\ cap = NoFrame
  /\ rec = NoFrame
  /\ accountKeys = <<>>
  /\ mpf = NoFrame
  /\ workflows = <<>>
  /\ wfr = [w \in WorkflowIds |-> NoFrame]
  /\ retry = NoFrame
  /\ \E c \in {DefaultCriticalThreshold, RaisedCriticalThreshold} :
       monitor = [InitMonitor EXCEPT !.config.criticalThreshold = c]
  /\ skills = <<>>
  /\ proxyMonitor = InitProxyMonitor
  /\ ret = NoRet
  /\ opCount = 0

\* a top-level call in the daily scenario, once the previous one has returned
EnterDaily ==
  /\ engine = "db"
  /\ monitor.run = NoFrame
  /\ opCount < MaxDailyOps
  /\ opCount' = opCount + 1
  /\ UNCHANGED <<engine, enableAutoFailover, mgrVars, wfVars, retry, skills, proxyMonitor>>

ResumeDaily ==
  /\ engine = "db"
  /\ UNCHANGED <<engine, enableAutoFailover, mgrVars, wfVars, retry, skills, proxyMonitor, opCount>>

NextDaily ==
  \/ \E id \in DailyAccounts : EnterDaily /\ CreateAccountCall(id) /\ UNCHANGED monitor
  \/ \E id \in DOMAIN accounts, u \in AccountUpdates :
       EnterDaily /\ UpdateAccountCall(id, u)
  \/ EnterDaily /\ Len(monitor.logs) < MaxDailyLogs /\ RunDailyHealthCheck
  \/ \E working \in BOOLEAN, stale \in BOOLEAN :
       ResumeDaily /\ DailyHealthCheckProbe(working, stale)

SpecDaily == InitDaily /\ [][NextDaily]_vars

\* Accounts created and advanced through their phases.
MaxPhaseOps == 6

InitPhase == Init /\ engine = "db" /\ enableAutoFailover

EnterPhase ==
  /\ engine = "db"
  /\ opCount < MaxPhaseOps
  /\ opCount' = opCount + 1
  /\ UNCHANGED <<engine, enableAutoFailover, mgrVars, wfVars, retry, skills, proxyMonitor>>

NextPhase ==
  \/ \E id \in Accounts : EnterPhase /\ CreateAccountCall(id) /\ UNCHANGED monitor
  \/ \E id \in Accounts : EnterPhase /\ AdvancePhase(id)

SpecPhase == InitPhase /\ [][NextPhase]_vars

\* withRetry called with the default configuration and with overrides, each
\* attempt free to succeed or fail; every attempt and every sleep ends.
RetryCounts == 0..(DefaultMaxRetries + 1)
RetryDelays == {0, 100, DefaultRetryDelayMs}

InitRetry == Init /\ engine = "db" /\ enableAutoFailover

NextRetry ==
  \/ \E m \in RetryCounts, d \in RetryDelays : WithRetry(m, d)
  \/ \E ok \in BOOLEAN : RetryOperationSettles(ok)
  \/ RetrySleepDone

SpecRetry ==
  /\ InitRetry
  /\ [][NextRetry]_vars
  /\ WF_vars(\E ok \in BOOLEAN : RetryOperationSettles(ok))
  /\ WF_vars(RetrySleepDone)

\* The manager driven by workflows, with direct manager calls in between:
\* accounts are created and the operator takes MaintenanceProxy out of service.
MaintenanceProxy == ProxyOrder[Len(ProxyOrder)]

\* The manager never reads enableAutoFailover.
InitWf == Init /\ engine = "mgr" /\ enableAutoFailover

NextWf ==
  \/ \E a \in Accounts, v \in BOOLEAN : OnboardAccount(a, v)
  \/ \E w \in WorkflowIds, fault \in BOOLEAN : HealthCheckProbe(w, fault)
  \/ \E w \in WorkflowIds : ExecuteStepSettle(w)
  \/ \E w \in WorkflowIds : WorkflowContinue(w)
  \/ \E id \in Accounts : MgrCreateAccount(id)
  \/ MgrUpdateProxy(MaintenanceProxy, [status |-> "maintenance"])

SpecWf == InitWf /\ [][NextWf]_vars

\* Recovery workflows over the manager, next to updateProxy calls that mark
\* a proxy failed.
NextRecovery ==
  \/ \E p \in Proxies \cup {UnknownProxy} : RecoverProxyWorkflow(p)
  \/ \E w \in WorkflowIds, fault \in BOOLEAN : HealthCheckProbe(w, fault)
  \/ \E w \in WorkflowIds : RecoverStepProbe(w)
  \/ \E w \in WorkflowIds : ExecuteStepSettle(w)
  \/ \E w \in WorkflowIds : WorkflowContinue(w)
  \/ \E p \in Proxies : MgrUpdateProxy(p, [status |-> "failed"])

SpecRecovery == InitWf /\ [][NextRecovery]_vars

\* checkAllProxies run repeatedly against a fleet whose first proxy starts
\* active with healthScore 80 and never answers a probe.
ScenarioProxy == ProxyOrder[1]
ScenarioHealthScore == 80

InitHealth ==
  /\ engine = "db"
  /\ enableAutoFailover \in BOOLEAN
  /\ proxies = [p \in Proxies |->
                  IF p = ScenarioProxy
                  THEN [InitProxy EXCEPT !.healthScore = ScenarioHealthScore]
                  ELSE InitProxy]
  /\ accounts = <<>>
  /\ mappings = <<>>
  /\ incidents = <<>>
  /\ inProgress = {}
  /\ hpf = [a \in Accounts |-> NoFrame]
  /\ bulk = NoFrame
  /\ cap = NoFrame
  /\ rec = NoFrame
  /\ accountKeys = <<>>
  /\ mpf = NoFrame
  /\ workflows = <<>>
  /\ wfr = [w \in WorkflowIds |-> NoFrame]
  /\ retry = NoFrame
  /\ monitor = InitMonitor
  /\ skills = <<>>
  /\ proxyMonitor = InitProxyMonitor
  /\ ret = NoRet
  /\ opCount = 0

\* a probe answers in the scenario: never `working` for the scenario proxy
ScenarioProbe(working) ==
  /\ cap # NoFrame
  /\ (getAllProxies(Tables)[cap.idx] = ScenarioProxy => ~working)
  /\ CheckAllProxiesProbe(working)

NextHealth ==
  \/ CheckAllProxies
  \/ \E w \in BOOLEAN : ScenarioProbe(w)

SpecHealth == InitHealth /\ [][NextHealth]_vars

\* checkAllProxies next to the calls that change a proxy's status while its
\* probes are awaited: recoverProxy and DatabaseClient.updateProxy.
InitProbe == Init /\ engine = "db" /\ enableAutoFailover

NextProbe ==
  \/ CheckAllProxies
  \/ \E w \in BOOLEAN : CheckAllProxiesProbe(w)
  \/ \E p \in Proxies : RecoverProxy(p)
  \/ \E w \in BOOLEAN : RecoverProxyProbe(w)
  \/ \E p \in Proxies : Enter("db") /\ UpdateProxyCall(p, [status |-> "maintenance"])

SpecProbe == InitProbe /\ [][NextProbe]_vars

\* the same calls, each started once the previous one has returned
NextProbeSeq ==
  \/ Idle /\ CheckAllProxies
  \/ \E w \in BOOLEAN : CheckAllProxiesProbe(w)
  \/ Idle /\ \E p \in Proxies : RecoverProxy(p)
  \/ \E w \in BOOLEAN : RecoverProxyProbe(w)
  \/ Idle /\ \E p \in Proxies :
       Enter("db") /\ UpdateProxyCall(p, [status |-> "maintenance"])

SpecProbeSeq == InitProbe /\ [][NextProbeSeq]_vars

\* The calls that write a healthScore, interleaved at their awaits, on
\* proxies whose healthScore was set near the floor beforehand and on an
\* account whose columns were set through updateAccount.
InitRange == Init /\ engine = "db" /\ enableAutoFailover

NextRange ==
  \/ CreateAccount(AccountOrder[1])
  \/ \E u \in AccountUpdates :
       EnterDaily /\ opCount < MaxOps /\ AccountOrder[1] \in DOMAIN accounts
                  /\ UpdateAccountCall(AccountOrder[1], u)
  \/ \E p \in Proxies :
       Enter("db") /\ UpdateProxyCall(p, [healthScore |-> DegradedHealthScore])
  \/ CheckAllProxies
  \/ \E w \in BOOLEAN : CheckAllProxiesProbe(w)
  \/ \E p \in Proxies :
       HandleProxyDegradation(p, [severity |-> "medium", successRate |-> 50])
  \/ \E p \in Proxies : RecoverProxy(p)
  \/ \E w \in BOOLEAN : RecoverProxyProbe(w)
  \/ EnterDaily /\ opCount < MaxOps /\ RunDailyHealthCheck
  \/ \E working \in BOOLEAN, stale \in BOOLEAN :
       ResumeDaily /\ DailyHealthCheckProbe(working, stale)

SpecRange == InitRange /\ [][NextRange]_vars

\* The incident table under the calls that write it: failovers and proxy
\* checks open incidents, recoverProxy and the failover's success path
\* resolve them, and DatabaseClient.updateIncident sets a status the
\* schema's CHECK admits.
IncidentStatuses == {"open", "investigating", "resolved", "ignored"}

InitIncident == Init /\ engine = "db"

NextIncident ==
  \/ \E id \in Accounts : CreateAccount(id)
  \/ \E a \in Accounts : HandleProxyFailure(a)
  \/ \E a \in Accounts : HandleProxyFailureReturn(a)
  \/ \E a \in Accounts : HandleProxyFailureThrow(a)
  \/ CheckAllProxies
  \/ \E w \in BOOLEAN : CheckAllProxiesProbe(w)
  \/ \E p \in Proxies : RecoverProxy(p)
  \/ \E w \in BOOLEAN : RecoverProxyProbe(w)
  \/ \E i \in 1..Len(incidents), st \in IncidentStatuses :
       Enter("db") /\ UpdateIncidentCall(i, [status |-> st])

SpecIncident == InitIncident /\ [][NextIncident]_vars

\* Every call that binds an account to a proxy, in either engine, next to
\* the calls that take a proxy out of service or lower its capacity.
ProxyUpdates == {[status |-> "failed"], [status |-> "maintenance"],
                 [status |-> "failed", maxAccounts |-> 0]}

NextBind ==
  \/ \E id \in Accounts : CreateAccount(id)
  \/ \E a \in Accounts, p \in Proxies : MoveAccount(a, p)
  \/ \E p \in Proxies, u \in ProxyUpdates : Enter("db") /\ UpdateProxyCall(p, u)
  \/ RebalanceMappings
  \/ \E a \in Accounts : HandleProxyFailure(a)
  \/ \E a \in Accounts : HandleProxyFailureReturn(a)
  \/ \E id \in Accounts : MgrCreateAccount(id)
  \/ \E a \in Accounts, p \in Proxies : MgrMoveAccount(a, p)
  \/ \E a \in Accounts : MgrFailoverAccount(a)
  \/ \E p \in Proxies : MgrHandleProxyFailure(p)
  \/ MgrHandleProxyFailureContinue

SpecBind == Init /\ [][NextBind]_vars

\* The calls that adjust a proxy's healthScore, started at any time: a
\* degradation report or a recoverProxy can run while checkAllProxies or
\* another recoverProxy awaits a probe.
InitAdjust == Init /\ engine = "db" /\ enableAutoFailover

NextAdjust ==
  \/ CheckAllProxies
  \/ \E w \in BOOLEAN : CheckAllProxiesProbe(w)
  \/ \E p \in Proxies : RecoverProxy(p)
  \/ \E w \in BOOLEAN : RecoverProxyProbe(w)
  \/ \E p \in Proxies :
       HandleProxyDegradation(p, [severity |-> "medium", successRate |-> 50])

SpecAdjust == InitAdjust /\ [][NextAdjust]_vars

\* the same calls, each started once the previous one has returned
NextAdjustSeq ==
  \/ Idle /\ CheckAllProxies
  \/ \E w \in BOOLEAN : CheckAllProxiesProbe(w)
  \/ Idle /\ \E p \in Proxies : RecoverProxy(p)
  \/ \E w \in BOOLEAN : RecoverProxyProbe(w)
  \/ Idle /\ \E p \in Proxies :
       HandleProxyDegradation(p, [severity |-> "medium", successRate |-> 50])

SpecAdjustSeq == InitAdjust /\ [][NextAdjustSeq]_vars

\* The three workflow functions, started at any time and running next to
\* each other.
NextWorkflows ==
  \/ \E a \in {AccountOrder[1]}, valid \in BOOLEAN : OnboardAccount(a, valid)
  \/ \E p \in {ProxyOrder[1], UnknownProxy} : RecoverProxyWorkflow(p)
  \/ RunDailyMaintenance
  \/ \E w \in WorkflowIds, fault \in BOOLEAN : HealthCheckProbe(w, fault)
  \/ \E w \in WorkflowIds : RecoverStepProbe(w)
  \/ \E w \in WorkflowIds : ExecuteStepSettle(w)
  \/ \E w \in WorkflowIds : WorkflowContinue(w)

SpecWorkflows == InitWf /\ [][NextWorkflows]_vars

\* -------------------------------------------------- AccountProxyMonitor
\* Of the monitor the model keeps status.isRunning, whether the two
\* interval timers are set, how many times setupEventSubscriptions has
\* subscribed its handlers on the event bus (the bus keeps every
\* subscription; nothing unsubscribes), and how many times
\* performHealthCheck and testAllProxies have been invoked.

MaxMonitorOps == 5

CommandEvents == {[type |-> "command.health-check", target |-> "account-proxy"],
                  [type |-> "command.health-check", target |-> "other"],
                  [type |-> "command.test-proxies", target |-> "none"]}

\* start(): nothing when running; else the timers are set, both checks are
\* invoked once, and setupEventSubscriptions subscribes the handlers
monitorStart(M) ==
  IF M.isRunning THEN M
  ELSE [M EXCEPT !.isRunning = TRUE, !.timers = TRUE,
                 !.healthChecks = @ + 1, !.proxyTests = @ + 1,
                 !.subscriptions = @ + 1]

\* stop(): nothing when stopped; else both timers are cleared
monitorStop(M) ==
  IF ~M.isRunning THEN M
  ELSE [M EXCEPT !.isRunning = FALSE, !.timers = FALSE]

\* updateConfig(config): merges the config, then stop() and start() when running
monitorUpdateConfig(M) ==
  IF M.isRunning THEN monitorStart(monitorStop(M)) ELSE M

\* how often EventBus.notifySubscribers calls a handler that runs the check
\* for this event: once per matching subscription, whose handler for
\* command.health-check looks at payload.target
handlerRuns(M, event) ==
  IF event.type = "command.test-proxies" THEN M.subscriptions
  ELSE IF event.target = "account-proxy" THEN M.subscriptions
  ELSE 0

MonitorStep ==
  /\ opCount < MaxMonitorOps
  /\ opCount' = opCount + 1
  /\ UNCHANGED <<engine, enableAutoFailover, dbVars, mgrVars, wfVars, retry, monitor, skills>>

MonitorStart ==
  /\ MonitorStep
  /\ proxyMonitor' = monitorStart(proxyMonitor)
  /\ ret' = [op |-> "start", wasRunning |-> proxyMonitor.isRunning]

MonitorStop ==
  /\ MonitorStep
  /\ proxyMonitor' = monitorStop(proxyMonitor)
  /\ ret' = [op |-> "stop", wasRunning |-> proxyMonitor.isRunning]

MonitorUpdateConfig ==
  /\ MonitorStep
  /\ proxyMonitor' = monitorUpdateConfig(proxyMonitor)
  /\ ret' = [op |-> "updateConfig", wasRunning |-> proxyMonitor.isRunning]

\* eventBus.publish(event): every matching handler is called before publish
\* returns; `ran` is the number of checks the monitor started for it
Publish(event) ==
  /\ MonitorStep
  /\ LET ran == handlerRuns(proxyMonitor, event) IN
     /\ proxyMonitor' = IF event.type = "command.test-proxies"
                        THEN [proxyMonitor EXCEPT !.proxyTests = @ + ran]
                        ELSE [proxyMonitor EXCEPT !.healthChecks = @ + ran]
     /\ ret' = [op |-> "publish", event |-> event,
                isRunning |-> proxyMonitor.isRunning, ran |-> ran]

\* one of the two interval timers fires: its callback invokes the check
TimerFires(check) ==
  /\ MonitorStep
  /\ proxyMonitor.timers
  /\ proxyMonitor' = IF check = "proxyTest"
                     THEN [proxyMonitor EXCEPT !.proxyTests = @ + 1]
                     ELSE [proxyMonitor EXCEPT !.healthChecks = @ + 1]
  /\ ret' = [op |-> "timer", check |-> check, isRunning |-> proxyMonitor.isRunning]

InitProxyMonitoring == Init /\ engine = "mgr" /\ enableAutoFailover

NextMonitor ==
  \/ MonitorStart
  \/ MonitorStop
  \/ MonitorUpdateConfig
  \/ \E event \in CommandEvents : Publish(event)
  \/ \E check \in {"healthCheck", "proxyTest"} : TimerFires(check)

SpecMonitor == InitProxyMonitoring /\ [][NextMonitor]_vars

\* ------------------------------------------------------------- properties

ProxyIncidents(p, type) ==
  {i \in 1..Len(incidents) : incidents[i].proxyId = p /\ incidents[i].type = type}

ActiveMappings(ms, a) ==
  {i \in 1..Len(ms) : ms[i].accountId = a /\ ms[i].isActive}

\* accounts bound to proxy p; in the database engine only those whose
\* active mapping points at p as well
BoundAccounts(p) ==
  {a \in DOMAIN accounts :
     /\ accounts[a].proxyId = p
     /\ engine = "db" => \E i \in ActiveMappings(mappings, a) : mappings[i].proxyId = p}

\* C1: after any interleaving of createAccount, moveAccount,
\* handleProxyFailure, bulkFailover, scheduleMaintenance and
\* rebalanceMappings, every proxy has 0 <= assignedAccounts <= maxAccounts.
C1_CapacityRespected ==
  \A p \in Proxies :
    /\ proxies[p].assignedAccounts >= 0
    /\ proxies[p].assignedAccounts <= proxies[p].maxAccounts

\* a createAccount refused for lack of capacity while a failover that filled
\* a proxy is still suspended at its await
C1_Witness ==
  /\ engine = "db"
  /\ \E a \in Accounts : hpf[a] # NoFrame
                         /\ proxies[hpf[a].newProxyId].assignedAccounts
                              = proxies[hpf[a].newProxyId].maxAccounts
  /\ ret.op = "createAccount"
  /\ ~ret.success

\* C2: in every reachable state, in either engine, each proxy's
\* assignedAccounts equals the number of accounts bound to it (with an
\* active mapping), whatever the arguments of the calls, an already existing
\* account id passed to createAccount included.
C2_CountsMatch ==
  \A p \in Proxies : proxies[p].assignedAccounts = Cardinality(BoundAccounts(p))

\* the same for the database engine alone
C2_DbCountsMatch == engine = "db" => C2_CountsMatch

\* C3: a handleProxyFailure(accountId) invoked while an earlier call for the
\* same account is still suspended returns the already-in-progress failure
\* at once and reassigns nothing, so the account has at most one
\* reassignment in flight.
C3_SecondCallRejected ==
  [][/\ \A a \in Accounts :
       (hpf[a] # NoFrame /\ HandleProxyFailure(a))
         => /\ ret' = FailoverResult(a, FALSE, None, None, "already_in_progress", Tables)
            /\ UNCHANGED <<proxies, accounts, mappings, incidents, inProgress, hpf>>
     /\ \A a \in Accounts :
          (hpf[a] # NoFrame /\ hpf'[a] # hpf[a]) => hpf'[a] = NoFrame]_vars

\* a call has just been rejected while the first one is still suspended
C3_Witness ==
  /\ ret.op = "handleProxyFailure"
  /\ ret.error = "already_in_progress"
  /\ hpf[ret.accountId] # NoFrame

\* C4: once a call that took the in-flight guard has returned (success,
\* account not found, auto-failover disabled, no available proxy, or an
\* exception), its account is out of the in-progress set: the set holds
\* exactly the accounts whose failover is still suspended.
C4_GuardReleased ==
  /\ inProgress = {a \in Accounts : hpf[a] # NoFrame}
  /\ (ret.op \in {"handleProxyFailure", "failoverAccount"}
        /\ ret.error # "already_in_progress") => ret.accountId \notin inProgress

\* the call that just returned left through the exception handler
C4_Witness ==
  /\ ret.op = "handleProxyFailure"
  /\ ret.error = "exception"
  /\ ret.accountId \notin inProgress

\* mappings of account a appended by the step
NewMappings(a) ==
  {i \in (Len(mappings) + 1)..Len(mappings') : mappings'[i].accountId = a}

\* mappings of account a the step turned from active to inactive
Deactivated(a) ==
  {i \in 1..Len(mappings) :
     mappings[i].accountId = a /\ mappings[i].isActive /\ ~mappings'[i].isActive}

C5_OneActiveMapping ==
  engine = "db" =>
    \A a \in DOMAIN accounts :
      /\ Cardinality(ActiveMappings(mappings, a)) = 1
      /\ \A i \in ActiveMappings(mappings, a) : mappings[i].proxyId = accounts[a].proxyId

C5_MoveStep ==
  engine = "db" => \A a \in DOMAIN accounts :
    /\ (accounts'[a].proxyId # accounts[a].proxyId
          \/ (ret'.op = "moveAccount" /\ ret'.success /\ ret'.accountId = a))
         => NewMappings(a) # {}
    /\ NewMappings(a) # {}
         => /\ Cardinality(NewMappings(a)) = 1
            /\ Cardinality(Deactivated(a)) = 1
            /\ \A i \in NewMappings(a) :
                 /\ mappings'[i].isActive
                 /\ mappings'[i].proxyId = accounts'[a].proxyId
                 /\ mappings'[i].previousProxyId = accounts[a].proxyId

\* C5: every existing account has exactly one active mapping at all times,
\* and each successful move (moveAccount, failover, rebalancing)
\* deactivates exactly one mapping and creates exactly one active mapping
\* whose previousProxyId is the old proxy.
C5_ExactlyOneActive == []C5_OneActiveMapping /\ [][C5_MoveStep]_vars

\* an account that was moved twice: one active mapping, two inactive ones
C5_Witness ==
  \E a \in DOMAIN accounts :
    /\ Cardinality({i \in 1..Len(mappings) : mappings[i].accountId = a}) = 3
    /\ Cardinality(ActiveMappings(mappings, a)) = 1

C7_OneTransition ==
  (cap = NoFrame /\ opCount = 3) =>
    /\ proxies[ScenarioProxy].status = "failed"
    /\ proxies[ScenarioProxy].healthScore = ScenarioHealthScore - 20
    /\ Cardinality(ProxyIncidents(ScenarioProxy, "proxy_failure")) = 1

\* C8: when scheduleMaintenance(proxyId) completes, the proxy's status is
\* maintenance.
C8_MaintenanceKept ==
  (ret.op = "scheduleMaintenance" /\ ~ret.threw) =>
    proxies[ret.proxyId].status = "maintenance"

\* the proxy handleProxyFailure found to replace in the state `pre`
SelectedFrom(pre, accountId) ==
  findAvailableProxy(updateProxy(pre, pre.accounts[accountId].proxyId,
                                 [status |-> "failed"]))

NoProxyCase ==
  /\ ret.op \in {"handleProxyFailure", "failoverAccount"}
  /\ ret.error # "already_in_progress"
  /\ ret.accountId \in DOMAIN ret.pre.accounts
  /\ IF engine = "db"
     THEN enableAutoFailover /\ SelectedFrom(ret.pre, ret.accountId) = {}
     ELSE mgrFindAvailableProxy(ret.pre) = {}

RECURSIVE SpareSlots(_, _)
SpareSlots(T, S) ==
  IF S = {} THEN 0
  ELSE LET p == CHOOSE q \in S : TRUE
       IN (IF T.proxies[p].status = "active"
           THEN Max(0, T.proxies[p].maxAccounts - T.proxies[p].assignedAccounts)
           ELSE 0) + SpareSlots(T, S \ {p})

\* C11: bulkFailover(proxyId) marks the proxy failed, fails over the accounts
\* bound to it one at a time, and returns total = successful + failed = the
\* number of accounts bound at the start; an account that could not be placed
\* is still bound to the proxy and a placed one is not.  With auto-failover
\* enabled and nothing thrown, as many accounts succeed as there were spare
\* slots on the other active proxies: 2 bound accounts and 1 spare slot give
\* successful = 1, failed = 1.
C11_BulkFailoverTotals ==
  /\ Cardinality({a \in Accounts : hpf[a] # NoFrame /\ hpf[a].caller = "bulk"}) <= 1
  /\ (engine = "db" /\ ret.op = "bulkFailover") =>
       LET from == ret.fromProxyId
           bound == getAccountsByProxy(ret.pre, from)
           spare == SpareSlots(ret.pre, Proxies \ {from})
       IN /\ proxies[from].status = "failed"
          /\ ret.accounts = bound
          /\ ret.total = Len(bound)
          /\ ret.total = ret.successful + ret.failed
          /\ Len(ret.results) = ret.total
          /\ \A k \in 1..ret.total :
               /\ ret.results[k] = "ok" => accounts[bound[k]].proxyId # from
               /\ ret.results[k] \in {"no_available_proxies", "auto_failover_disabled"}
                    => accounts[bound[k]].proxyId = from
          /\ (enableAutoFailover /\ \A k \in 1..ret.total : ret.results[k] # "exception")
               => /\ ret.successful = Min(ret.total, spare)
                  /\ ret.failed = ret.total - Min(ret.total, spare)

\* bulkFailover of a proxy with 2 accounts has just returned 1 moved, 1 failed
C11_Witness ==
  /\ engine = "db"
  /\ ret.op = "bulkFailover"
  /\ ret.total = 2
  /\ ret.successful = 1
  /\ ret.failed = 1
  /\ ret.results = <<"ok", "no_available_proxies">>

\* ---------------------------------------------------------------- C12
StepsOf(w) == workflows[w].steps

\* C12: within one workflow the steps run in the declared order, one at a
\* time: the steps recorded so far are the first ones of the declared list,
\* every step but the last is completed (so at most one is in_progress, and
\* nothing was started after a failed step), a workflow whose function has
\* returned after a failed step has status failed, and a workflow is
\* completed only with every declared step completed.
C12_StepsInOrder ==
  \A w \in DOMAIN workflows :
    LET st == StepsOf(w) IN
    /\ Len(st) \in 1..Len(OnboardingSteps)
    /\ \A k \in 1..Len(st) : st[k].name = OnboardingSteps[k]
    /\ \A k \in 1..(Len(st) - 1) : st[k].status = "completed"
    /\ Cardinality({k \in 1..Len(st) : st[k].status = "in_progress"}) <= 1
    /\ (wfr[w] # NoFrame) => workflows[w].status = "running"
    /\ (wfr[w] = NoFrame) =>
         /\ st[Len(st)].status \in {"completed", "failed"}
         /\ (st[Len(st)].status = "failed") <=> (workflows[w].status = "failed")
         /\ (workflows[w].status = "completed") <=>
              (Len(st) = Len(OnboardingSteps) /\ st[Len(st)].status = "completed")
         /\ workflows[w].status \in {"completed", "failed"}

\* a workflow that failed in its fifth step while another one completed
C12_Witness ==
  \E w, x \in DOMAIN workflows :
    /\ workflows[w].status = "failed"
    /\ Len(StepsOf(w)) = 5
    /\ StepsOf(w)[5].status = "failed"
    /\ workflows[x].status = "completed"
    /\ Len(StepsOf(x)) = Len(OnboardingSteps)

\* ---------------------------------------------------------------- C13
\* The manual_intervention incidents, and everything one of them mentions:
\* its structured references and the words of its title and description.
ManualInterventions ==
  {k \in 1..Len(incidents) : incidents[k].type = "manual_intervention"}

IncidentMentions(i) ==
  {i.accountId, i.proxyId, i.oldProxyId, i.newProxyId}
    \cup (IF "title" \in DOMAIN i THEN Range(i.title) \cup Range(i.description) ELSE {})

FailedWorkflows ==
  {w \in DOMAIN workflows : wfr[w] = NoFrame /\ workflows[w].status = "failed"}

\* What failWorkflow does keep: one manual_intervention incident per failed
\* workflow, none for a completed one, each carrying the error's message.
C13_OneIncidentEach ==
  /\ Cardinality(ManualInterventions) = Cardinality(FailedWorkflows)
  /\ \A w \in FailedWorkflows :
       \E k \in ManualInterventions :
         StepsOf(w)[Len(StepsOf(w))].error \in IncidentMentions(incidents[k])

\* C13: every workflow that ended failed has exactly one manual_intervention
\* incident that references the workflow's id and names the step that
\* failed; completed workflows have none.
C13_IncidentNamesWorkflow ==
  /\ Cardinality(ManualInterventions) = Cardinality(FailedWorkflows)
  /\ \A w \in FailedWorkflows :
       Cardinality({k \in ManualInterventions :
                      /\ w \in IncidentMentions(incidents[k])
                      /\ StepsOf(w)[Len(StepsOf(w))].name
                           \in IncidentMentions(incidents[k])}) = 1

\* ---------------------------------------------------------------- C14
\* The step just taken belongs to workflow w
WorkflowStepped(w) ==
  /\ w \in DOMAIN workflows'
  /\ \/ w \notin DOMAIN workflows
     \/ workflows'[w] # workflows[w]
     \/ wfr'[w] # wfr[w]

\* The step just taken started w's create_account step
CreateAccountStarted(w) ==
  /\ w \in DOMAIN workflows
  /\ Len(StepsOf(w)) = 2
  /\ Len(workflows'[w].steps) = 3

\* C14: onboarding has no rollback and no early side effect.  The only step
\* of an onboarding workflow that changes an account or a proxy counter is
\* the start of create_account, which either fails and changes nothing or
\* binds the account to one proxy and adds one to that proxy's counter.  In
\* particular the steps before it and the failure handling change neither:
\* when the workflow fails after create_account, the account is still there
\* on a proxy whose counter still includes it.
C14_NoRollbackNoEarlyEffect ==
  [][\A w \in WorkflowIds :
       WorkflowStepped(w) =>
         LET a == workflows'[w].accountId IN
         IF CreateAccountStarted(w) /\ wfr'[w].outcome = "ok"
         THEN /\ a \in DOMAIN accounts'
              /\ \A b \in DOMAIN accounts' \ {a} :
                   b \in DOMAIN accounts /\ accounts'[b] = accounts[b]
              /\ \A p \in Proxies :
                   proxies'[p] =
                     IF p = accounts'[a].proxyId
                     THEN [proxies[p] EXCEPT !.assignedAccounts = @ + 1]
                     ELSE proxies[p]
         ELSE /\ accounts' = accounts
              /\ proxies' = proxies
              /\ (workflows'[w].status = "failed" /\ Len(workflows'[w].steps) > 3) =>
                   /\ a \in DOMAIN accounts'
                   /\ proxies'[accounts'[a].proxyId].assignedAccounts >= 1
  ]_vars

\* one workflow failed in health_check and its account is in place; another
\* failed in check_proxies and its account does not exist
C14_Witness ==
  \E w, x \in FailedWorkflows :
    /\ Len(StepsOf(w)) = 5
    /\ workflows[w].accountId \in DOMAIN accounts
    /\ proxies[accounts[workflows[w].accountId].proxyId].assignedAccounts >= 1
    /\ Len(StepsOf(x)) = 2
    /\ workflows[x].accountId \notin DOMAIN accounts

\* ---------------------------------------------------------------- C15
RetryInFlight == retry # NoFrame

\* what holds of a withRetry call at every moment and at its return
C15_Bounded ==
  /\ RetryInFlight =>
       /\ retry.calls \in 1..retry.maxRetries
       /\ retry.calls = retry.attempt
  /\ ret.op = "withRetry" =>
       /\ ret.calls <= ret.maxRetries
       /\ ret.calls >= 0
       /\ \A k \in 1..Len(ret.delays) :
            ret.delays[k] = ret.retryDelayMs * (2 ^ (k - 1))
       /\ ~ret.threw =>
            /\ ret.value = <<"value", ret.calls>>
            /\ Len(ret.delays) = ret.calls - 1
       /\ ret.threw =>
            /\ ret.calls = Max(ret.maxRetries, 0)
            /\ Len(ret.delays) = Max(ret.maxRetries - 1, 0)
            /\ ret.maxRetries >= 1 => ret.value = <<"error", ret.maxRetries>>

\* C15: withRetry invokes the operation at most maxRetries times, returns
\* the value of the first attempt that succeeds without invoking it again,
\* sleeps retryDelayMs * 2^(attempt-1) after failed attempt number `attempt`
\* when another follows, throws the error of the last attempt after
\* maxRetries failures, and always returns when attempts and sleeps end.
C15_WithRetry ==
  /\ []C15_Bounded
  /\ RetryInFlight ~> ~RetryInFlight

\* the default configuration exhausted: three invocations, delays 5000 and
\* 10000, and the third error thrown
C15_Witness ==
  /\ ret.op = "withRetry"
  /\ ret.threw
  /\ ret.maxRetries = DefaultMaxRetries
  /\ ret.retryDelayMs = DefaultRetryDelayMs
  /\ ret.calls = 3
  /\ ret.delays = <<5000, 10000>>
  /\ ret.value = <<"error", 3>>

\* ---------------------------------------------------------------- C16
\* the open incidents of T that reference proxy p in any of their fields
OpenIncidentsOf(incs, p) ==
  {k \in 1..Len(incs) :
     /\ incs[k].status = "open"
     /\ p \in {incs[k].proxyId, incs[k].oldProxyId, incs[k].newProxyId}}

\* C16: the step in which recoverProxy(proxyId) returns, for a proxy that
\* exists: after a successful probe the proxy is active, its healthScore is
\* the former one plus 20 capped at 100, true is returned and no incident
\* referencing the proxy is open; after a failed probe false is returned and
\* neither the proxies nor the incidents have changed.
C16_RecoverProxy ==
  [][(ret'.op = "recoverProxy" /\ ret'.proxyId \in Proxies) =>
       LET p == ret'.proxyId IN
       IF ret'.result
       THEN /\ proxies'[p].status = "active"
            /\ proxies'[p].healthScore = Min(100, proxies[p].healthScore + 20)
            /\ proxies'[p].healthScore >= proxies[p].healthScore
            /\ OpenIncidentsOf(incidents', p) = {}
            /\ \A q \in Proxies \ {p} : proxies'[q] = proxies[q]
       ELSE /\ proxies' = proxies
            /\ incidents' = incidents
  ]_vars

\* recoverProxy has just returned true for a proxy that was failed, below
\* 100 and had an open incident
C16_Witness ==
  /\ ret.op = "recoverProxy"
  /\ ret.result
  /\ ret.proxyId \in Proxies
  /\ proxies[ret.proxyId].status = "active"
  /\ proxies[ret.proxyId].healthScore = LoweredHealthScore + 20
  /\ \E k \in 1..Len(incidents) :
       /\ incidents[k].proxyId = ret.proxyId
       /\ incidents[k].resolution = "Proxy recovered and passed health check"

\* ---------------------------------------------------------------- C17
\* the proxies the selection rule allows in the tables `pre`: active, with
\* spare capacity, fewest assignedAccounts, and among those the highest
\* healthScore
BestProxies(pre) ==
  LET candidates == {p \in Proxies : /\ pre.proxies[p].status = "active"
                                     /\ pre.proxies[p].assignedAccounts
                                          < pre.proxies[p].maxAccounts}
      fewest == {p \in candidates : \A q \in candidates :
                   pre.proxies[p].assignedAccounts <= pre.proxies[q].assignedAccounts}
  IN {p \in fewest : \A q \in fewest :
        pre.proxies[p].healthScore >= pre.proxies[q].healthScore}

\* what both engines keep: the proxy createAccount chooses is active, has
\* spare capacity and the fewest assignedAccounts among such proxies
C17_FewestAssigned ==
  (ret.op = "createAccount" /\ ret.success) =>
    /\ ret.pre.proxies[ret.proxyId].status = "active"
    /\ ret.pre.proxies[ret.proxyId].assignedAccounts
         < ret.pre.proxies[ret.proxyId].maxAccounts
    /\ \A q \in Proxies :
         (/\ ret.pre.proxies[q].status = "active"
          /\ ret.pre.proxies[q].assignedAccounts < ret.pre.proxies[q].maxAccounts)
         => ret.pre.proxies[ret.proxyId].assignedAccounts
              <= ret.pre.proxies[q].assignedAccounts

\* the DatabaseClient engine also breaks ties by the highest healthScore
C17_DbSelectsBest ==
  (engine = "db" /\ ret.op = "createAccount" /\ ret.success) =>
    ret.proxyId \in BestProxies(ret.pre)

\* C17: the proxy chosen by createAccount is active, has spare capacity,
\* has the fewest assignedAccounts among such proxies and, among those with
\* the fewest, the highest healthScore.
C17_SelectsBest ==
  (ret.op = "createAccount" /\ ret.success) =>
    ret.proxyId \in BestProxies(ret.pre)

\* ---------------------------------------------------------------- C18
\* some active proxy has a free slot in the tables `pre`
HasCapacity(pre) ==
  \E p \in Proxies : /\ pre.proxies[p].status = "active"
                      /\ pre.proxies[p].assignedAccounts < pre.proxies[p].maxAccounts

FleetFull == \A p \in Proxies : proxies[p].assignedAccounts = proxies[p].maxAccounts

MoveMustFail(pre, accountId, targetProxyId) ==
  \/ accountId \notin DOMAIN pre.accounts
  \/ targetProxyId \notin Proxies
  \/ pre.proxies[targetProxyId].assignedAccounts >= pre.proxies[targetProxyId].maxAccounts

\* C19: a moveAccount whose account does not exist, whose target proxy does
\* not exist or whose target proxy is at capacity returns a failure and
\* leaves every account, proxy counter, mapping and incident as it was; in
\* every other case it succeeds.
C19_FailedMoveChangesNothing ==
  ret.op = "moveAccount" =>
    IF MoveMustFail(ret.pre, ret.accountId, ret.targetProxyId)
    THEN /\ ~ret.success
         /\ ret.error \in {"account_not_found", "proxy_not_found", "at_capacity"}
         /\ Tables = ret.pre
    ELSE ret.success

\* a move of an existing account to an existing proxy has just been refused
\* because the proxy is full
C19_Witness ==
  /\ ret.op = "moveAccount"
  /\ ~ret.success
  /\ ret.error = "at_capacity"
  /\ ret.accountId \in DOMAIN accounts
  /\ ret.targetProxyId \in Proxies
  /\ accounts[ret.accountId].proxyId # ret.targetProxyId
  /\ proxies[ret.targetProxyId].assignedAccounts = proxies[ret.targetProxyId].maxAccounts

\* ---------------------------------------------------------------- C20
\* how many accounts proxy p holds beyond its capacity in the tables `pre`
Excess(pre, p) ==
  Max(0, Len(getAccountsByProxy(pre, p)) - pre.proxies[p].maxAccounts)

\* the position of the mapping that bound account a to its current proxy:
\* mappings are kept in the order they were written, so a later position
\* is a more recent assignment
AssignedAt(pre, a) ==
  CHOOSE i \in 1..Len(pre.mappings) :
    /\ pre.mappings[i].accountId = a
    /\ pre.mappings[i].isActive
    /\ \A j \in (i + 1)..Len(pre.mappings) :
         ~(pre.mappings[j].accountId = a /\ pre.mappings[j].isActive)

\* the n most recently assigned accounts of proxy p
MostRecent(pre, p, n) ==
  LET held == Range(getAccountsByProxy(pre, p)) IN
  {a \in held :
     Cardinality({b \in held : AssignedAt(pre, b) > AssignedAt(pre, a)}) < n}

MovesFrom(p) == {k \in 1..Len(ret.moves) : ret.moves[k].fromProxy = p}

\* what rebalanceMappings does keep: for each proxy it records one move per
\* excess account, taken from the end of the proxy's accounts in id order; a
\* success leaves the account on the proxy named, which had a free slot,
\* and a failure leaves the account where it was
C20_OneMovePerExcess ==
  ret.op = "rebalanceMappings" =>
    /\ \A p \in Proxies :
         /\ Cardinality(MovesFrom(p)) = Excess(ret.pre, p)
         /\ {ret.moves[k].accountId : k \in MovesFrom(p)}
              = Range(SliceLast(getAccountsByProxy(ret.pre, p), Excess(ret.pre, p)))
    /\ \A k \in 1..Len(ret.moves) :
         IF ret.moves[k].success
         THEN /\ accounts[ret.moves[k].accountId].proxyId = ret.moves[k].toProxy
              /\ ret.moves[k].toProxy # ret.moves[k].fromProxy
              /\ proxies[ret.moves[k].toProxy].assignedAccounts
                   <= proxies[ret.moves[k].toProxy].maxAccounts
         ELSE accounts[ret.moves[k].accountId].proxyId = ret.moves[k].fromProxy

\* C20: rebalanceMappings moves, for each proxy holding more accounts than
\* its maxAccounts, exactly the excess number of accounts, the most recently
\* assigned ones, and records one result for each of them.
C20_MostRecentMoved ==
  ret.op = "rebalanceMappings" =>
    \A p \in Proxies :
      /\ Cardinality(MovesFrom(p)) = Excess(ret.pre, p)
      /\ {ret.moves[k].accountId : k \in MovesFrom(p)}
           = MostRecent(ret.pre, p, Excess(ret.pre, p))

\* ---------------------------------------------------------------- C21
\* the proxies more accounts point at than their maxAccounts allows
OverCapacity ==
  {p \in Proxies :
     Cardinality({a \in DOMAIN accounts : accounts[a].proxyId = p})
       > proxies[p].maxAccounts}

\* C21: a validateMappings call changes no table; the proxies its
\* violations name, and the summary rows it marks invalid, are exactly the
\* proxies with more accounts pointing at them than maxAccounts; isValid
\* says there is none; and a call that directly follows another call
\* returns the same isValid, violations and summary.
C21_ValidateMappingsPure ==
  [][ret'.op = "validateMappings" =>
       /\ Tables' = Tables
       /\ {ret'.violations[k][1] : k \in 1..Len(ret'.violations)} = OverCapacity
       /\ Len(ret'.violations) = Cardinality(OverCapacity)
       /\ {ret'.summary[k].proxyId : k \in 1..Len(ret'.summary)} = Proxies
       /\ \A k \in 1..Len(ret'.summary) :
            /\ ret'.summary[k].isValid <=> ret'.summary[k].proxyId \notin OverCapacity
            /\ Range(ret'.summary[k].accounts)
                 = {a \in DOMAIN accounts : accounts[a].proxyId = ret'.summary[k].proxyId}
       /\ ret'.isValid <=> (OverCapacity = {})
       /\ ret.op = "validateMappings" => ret' = ret
  ]_vars

\* validateMappings has just reported one proxy over capacity next to a full one
C21_Witness ==
  /\ ret.op = "validateMappings"
  /\ ~ret.isValid
  /\ Len(ret.violations) = 1
  /\ OverCapacity # {}
  /\ \E p \in Proxies \ OverCapacity :
       Cardinality({a \in DOMAIN accounts : accounts[a].proxyId = p})
         = proxies[p].maxAccounts

\* ---------------------------------------------------------------- C22
Clamp(x, lo, hi) == Max(lo, Min(hi, x))

\* C22: for every evaluation with a positive dailyActionLimit the score is
\* clamp(100 - 40*[proxy not working] - 30*[suspended] - 50*[banned]
\* - 10*[actionsToday/dailyActionLimit > 0.9] - floor(spamScore/10)
\* - 2*issues, 0, 100); it always lies in 0..100; and evaluating the same
\* factors again gives the same score.
C22_HealthScoreFormula ==
  [][ret'.op = "calculateHealthScore" =>
       LET f == ret'.factors IN
       /\ ret'.score \in 0..100
       /\ f.dailyActionLimit > 0 =>
            ret'.score =
              Clamp(100
                    - 40 * (IF f.proxyWorking THEN 0 ELSE 1)
                    - 30 * (IF f.accountStatus = "suspended" THEN 1 ELSE 0)
                    - 50 * (IF f.accountStatus = "banned" THEN 1 ELSE 0)
                    - 10 * (IF f.actionsToday * 10 > f.dailyActionLimit * 9 THEN 1 ELSE 0)
                    - (f.spamScore \div 10)
                    - 2 * f.issues, 0, 100)
       /\ (ret.op = "calculateHealthScore" /\ ret.factors = f) => ret'.score = ret.score
  ]_vars

\* proxy down, status active, ratio 0.5, spamScore 30 and 1 issue give 55
C22_Witness ==
  /\ ret.op = "calculateHealthScore"
  /\ ret.factors = [proxyWorking |-> FALSE, accountStatus |-> "active",
                    actionsToday |-> 5, dailyActionLimit |-> 10,
                    spamScore |-> 30, issues |-> 1]
  /\ ret.score = 55
\* ---- C23
DailyReturned == ret.op = "runDailyHealthCheck" /\ "results" \in DOMAIN ret

\* the rows appended to sequence `now` since it was `before`
Appended(before, now) == SubSeq(now, Len(before) + 1, Len(now))

\* the incidents the call opened for account a
DailyIncidents(a) ==
  {i \in (Len(ret.pre.tables.incidents) + 1)..Len(incidents) :
     /\ incidents[i].type = "health_check_failed"
     /\ incidents[i].accountId = a
     /\ incidents[i].status = "open"}

\* the alerts the call raised for account a
DailyAlerts(a) ==
  {i \in (Len(ret.pre.monitor.alerts) + 1)..Len(monitor.alerts) :
     monitor.alerts[i].accountId = a}

\* C23: when runDailyHealthCheck returns, it has appended exactly one
\* HealthCheckLog for every account that was active when it was called and
\* none for any other account, each active account's stored healthScore is
\* the score computed for it, a health_check_failed incident was opened for
\* an account exactly when its score is below the critical threshold, a
\* score from the critical threshold up to below the warning threshold
\* raised only an alert, and the rows of the other accounts are as before.
C23_DailyHealthCheck ==
  DailyReturned =>
    LET pre == ret.pre
        active == OrderBy(AccountOrder,
                          {a \in DOMAIN pre.tables.accounts :
                             getAccount(pre.tables, pre.monitor, a).status = "active"})
        logs == Appended(pre.monitor.logs, monitor.logs)
        critical == monitor.config.criticalThreshold
        warning == monitor.config.alertThreshold
    IN /\ Len(logs) = Len(active)
       /\ Len(ret.results) = Len(active)
       /\ Len(incidents) - Len(pre.tables.incidents)
            = Cardinality(UNION {DailyIncidents(a) : a \in Range(active)})
       /\ \A k \in 1..Len(active) :
            LET a == active[k]
                score == ret.results[k].healthScore
            IN /\ logs[k].accountId = a
               /\ logs[k].healthScore = score
               /\ getAccount(Tables, monitor, a).healthScore = score
               /\ Cardinality(DailyIncidents(a)) = (IF score < critical THEN 1 ELSE 0)
               /\ Cardinality(DailyAlerts(a)) = (IF score < warning THEN 1 ELSE 0)
               /\ (score >= critical /\ score < warning) =>
                     \A i \in DailyAlerts(a) : monitor.alerts[i].level = "WARNING"
       /\ \A a \in DOMAIN accounts \ Range(active) :
            /\ a \in DOMAIN pre.tables.accounts
            /\ getAccount(Tables, monitor, a) = getAccount(pre.tables, pre.monitor, a)
            /\ DailyIncidents(a) = {} /\ DailyAlerts(a) = {}

\* a run that opened an incident for an account below the critical
\* threshold and passed over an account that is not active, after a run that
\* found an account in the warning range and raised only an alert
C23_Witness ==
  /\ DailyReturned
  /\ DOMAIN accounts \ {r.accountId : r \in Range(ret.results)} # {}
  /\ \E k \in 1..Len(ret.results) :
       /\ ret.results[k].healthScore < monitor.config.criticalThreshold
       /\ DailyIncidents(ret.results[k].accountId) # {}
  /\ \E i \in 1..Len(monitor.alerts) :
       /\ monitor.alerts[i].level = "WARNING"
       /\ monitor.alerts[i].healthScore >= monitor.config.criticalThreshold
       /\ Len(incidents) = Cardinality(UNION {DailyIncidents(a) : a \in DOMAIN accounts})

\* ---- C24
\* C24: with auto-failover configured off, a handleProxyFailure(accountId)
\* for an existing account returns a failure and leaves the tables as they
\* were except for one appended incident, which is open: no account row, no
\* proxy row (status, assignedAccounts) and no mapping has changed.
C24_DisabledOnlyIncident ==
  (/\ engine = "db"
   /\ ~enableAutoFailover
   /\ ret.op = "handleProxyFailure"
   /\ ret.accountId \in DOMAIN ret.pre.accounts) =>
    /\ ~ret.success
    /\ Len(incidents) = Len(ret.pre.incidents) + 1
    /\ SubSeq(incidents, 1, Len(ret.pre.incidents)) = ret.pre.incidents
    /\ incidents[Len(incidents)].status = "open"
    /\ incidents[Len(incidents)].accountId = ret.accountId
    /\ accounts = ret.pre.accounts
    /\ proxies = ret.pre.proxies
    /\ mappings = ret.pre.mappings
    /\ inProgress = {}

\* a second reported failure of the same account with auto-failover off:
\* the account still sits on its proxy, which carries two open incidents
C24_Witness ==
  /\ engine = "db"
  /\ ~enableAutoFailover
  /\ ret.op = "handleProxyFailure"
  /\ ret.error = "auto_failover_disabled"
  /\ ret.pre.incidents # <<>>
  /\ \A i \in 1..Len(incidents) :
       /\ incidents[i].accountId = ret.accountId
       /\ incidents[i].status = "open"
  /\ accounts[ret.accountId].proxyId = ret.oldProxyId
  /\ proxies[ret.oldProxyId].status = "active"

\* ---- C25
\* the incidents of type `type` for account a among the rows of `incs`
IncidentsFor(incs, type, a) ==
  {i \in 1..Len(incs) : incs[i].type = type /\ incs[i].accountId = a}

\* C25: when handleProxyDegradation(proxyId, metrics) returns, for an
\* unknown proxy id the tables are as they were; for an existing proxy
\* exactly one proxy_degraded incident was opened and the proxy's
\* healthScore is 15 lower, not below 0; handleProxyFailure was called
\* for every account that was bound to the proxy when
\* metrics.successRate < 50, each call leaving its incident, and for no
\* account otherwise, in which case nothing else has changed.
C25_Degradation ==
  ret.op = "handleProxyDegradation" =>
    IF ~ret.known THEN Tables = ret.pre
    ELSE LET pre == ret.pre
             p == ret.proxyId
             bound == getAccountsByProxy(pre, p)
             new == Appended(pre.incidents, incidents)
             lowered == Max(0, pre.proxies[p].healthScore - 15)
         IN /\ new # <<>>
            /\ new[1].type = "proxy_degraded" /\ new[1].status = "open"
            /\ new[1].proxyId = p /\ new[1].severity = ret.metrics.severity
            /\ Cardinality({i \in 1..Len(new) : new[i].type = "proxy_degraded"}) = 1
            /\ SubSeq(incidents, 1, Len(pre.incidents)) = pre.incidents
            /\ proxies[p].healthScore = lowered
            /\ Len(ret.results) = Len(ret.accounts)
            /\ IF ret.metrics.successRate < 50
               THEN /\ ret.accounts = bound
                    /\ \A k \in 1..Len(bound) :
                         LET a == bound[k] IN
                         \/ /\ ret.results[k] = "ok"
                            /\ accounts[a].proxyId # p
                            /\ IncidentsFor(new, "failover_triggered", a) # {}
                         \/ /\ ret.results[k] \in {"auto_failover_disabled",
                                                    "no_available_proxies"}
                            /\ accounts[a].proxyId = p
                            /\ IncidentsFor(new, "proxy_failure", a) # {}
                         \/ ret.results[k] = "exception"
               ELSE /\ ret.accounts = <<>>
                    /\ Len(new) = 1
                    /\ accounts = pre.accounts
                    /\ mappings = pre.mappings
                    /\ proxies = [pre.proxies EXCEPT ![p].healthScore = lowered]

\* a report with a success rate below 50 against a proxy with two accounts:
\* the first was failed over, and no proxy was left for the second
C25_Witness ==
  /\ ret.op = "handleProxyDegradation" /\ ret.known
  /\ ret.metrics.successRate < 50
  /\ Len(ret.accounts) = 2
  /\ ret.results = <<"ok", "no_available_proxies">>
  /\ proxies[ret.proxyId].healthScore = DefaultHealthScore - 15
  /\ proxies[ret.proxyId].status = "failed"
  /\ accounts[ret.accounts[1]].proxyId # ret.proxyId
  /\ accounts[ret.accounts[2]].proxyId = ret.proxyId

\* ---- C26
\* the limits the phases are documented to carry
PhaseLimit == [warmup |-> 10, soft |-> 20, growth |-> 50, full |-> 100]

\* C26: advancePhase on an existing account below full moves it to the next
\* phase of warmup, soft, growth, full and sets dailyActionLimit to that
\* phase's limit, and changes nothing else; at full, and for every other
\* account, all columns stay as they were.  Hence every account's
\* dailyActionLimit is the limit of its phase.
C26_AdvancePhase ==
  /\ \A a \in DOMAIN accounts :
       LET row == getAccount(Tables, monitor, a)
       IN row.dailyActionLimit = PhaseLimit[row.phase]
  /\ ret.op = "advancePhase" =>
       /\ Tables = ret.pre.tables
       /\ \A a \in DOMAIN accounts \ {ret.accountId} :
            getAccount(Tables, monitor, a) = getAccount(ret.pre.tables, ret.pre.monitor, a)
       /\ ret.found = (ret.accountId \in DOMAIN accounts)
       /\ ret.found =>
            LET old == getAccount(ret.pre.tables, ret.pre.monitor, ret.accountId)
                new == getAccount(Tables, monitor, ret.accountId)
            IN /\ ret.account = new
               /\ IF old.phase = "full" THEN new = old
                  ELSE \E i \in 1..3 :
                         /\ old.phase = phases[i]
                         /\ new = [old EXCEPT !.phase = phases[i + 1],
                                              !.dailyActionLimit = PhaseLimit[phases[i + 1]]]

\* an account advanced three times reached full with a limit of 100, and
\* one more advancePhase has just left it there
C26_Witness ==
  /\ ret.op = "advancePhase" /\ ret.found
  /\ ret.account.phase = "full"
  /\ ret.account.dailyActionLimit = 100
  /\ getAccount(ret.pre.tables, ret.pre.monitor, ret.accountId).phase = "full"
  /\ \E a \in DOMAIN accounts : getAccount(Tables, monitor, a).phase = "warmup"

\* ---- C27
\* C27: every incident whose status is resolved carries a resolution text
\* and a resolver identity.
C27_ResolvedCarryAudit ==
  \A i \in 1..Len(incidents) :
    incidents[i].status = "resolved" =>
      incidents[i].resolution # None /\ incidents[i].resolvedBy # None

\* the part that holds: an incident resolved through resolveIncident, as
\* the failover_triggered incident of the database engine's
\* handleProxyFailure is, carries both
C27_ResolveIncidentCarriesAudit ==
  \A i \in 1..Len(incidents) :
    (engine = "db" /\ incidents[i].type = "failover_triggered") =>
      /\ incidents[i].status = "resolved"
      /\ incidents[i].resolution # None
      /\ incidents[i].resolvedBy # None

\* ---- C28
\* the recovery workflows in flight whose first step did not fail
PastVerify ==
  {w \in DOMAIN workflows :
     /\ workflows[w].type = "recovery"
     /\ wfr[w] # NoFrame
     /\ \/ Len(workflows[w].steps) > 1
        \/ workflows[w].steps[1].status = "completed"}

\* C28: a recovery workflow gets past its first step only for a proxy that
\* existed and was not active when the workflow was started; a proxy that
\* was active is neither probed nor passed to recoverProxy.
C28_ActiveNeverRecovered ==
  \A w \in PastVerify :
    LET pre == wfr[w].pre
        p == wfr[w].proxyId
    IN p \in DOMAIN pre.proxies /\ pre.proxies[p].status # "active"

\* the part that holds: for a proxy id that does not exist the first step
\* fails and no further step is started
C28_UnknownProxyAborts ==
  \A w \in DOMAIN workflows :
    (workflows[w].type = "recovery" /\ workflows[w].proxyId \notin Proxies) =>
      /\ Len(workflows[w].steps) = 1
      /\ workflows[w].steps[1].status \in {"in_progress", "failed"}
      /\ workflows[w].status \in {"running", "failed"}

\* ---- C29
\* C29: register for an id that is already registered throws and leaves the
\* registry as it was.
C29_DuplicateRejected ==
  (ret.op = "register" /\ ret.id \in DOMAIN ret.pre) =>
    ret.threw /\ skills = ret.pre

\* ---- C30
\* this step is checkAllProxies receiving a passing probe of proxy id
PassingProbe(id) ==
  /\ cap # NoFrame
  /\ getAllProxies(Tables)[cap.idx] = id
  /\ IF cap' # NoFrame THEN cap'.results = Append(cap.results, TRUE)
     ELSE ret'.op = "checkAllProxies" /\ ret'.results = Append(cap.results, TRUE)

\* this step is recoverProxy(id) receiving the answer of its probe
RecoverRequested(id) == rec # NoFrame /\ rec.proxyId = id /\ rec' = NoFrame

ProbeRecoveryStep ==
  \A id \in Proxies :
    /\ PassingProbe(id) =>
         IF proxies[id].status = "failed"
         THEN proxies'[id] = [proxies[id] EXCEPT !.status = "active",
                                                 !.healthScore = Min(100, @ + 10)]
         ELSE proxies'[id] = proxies[id]
    /\ (proxies[id].status = "failed" /\ proxies'[id].status = "active") =>
         PassingProbe(id) \/ RecoverRequested(id)

\* C30: a passing probe in checkAllProxies changes a proxy that is failed to
\* active with 10 more healthScore, at most 100, and leaves a proxy that is
\* active or in maintenance as it is; a proxy goes from failed to active
\* only there or in a recoverProxy call for it.
C30_ProbeRecovery == [][ProbeRecoveryStep]_vars

\* C31: whatever checkAllProxies, handleProxyDegradation, recoverProxy and
\* runDailyHealthCheck calls have run, and wherever they are suspended,
\* every proxy's healthScore and every account's stored healthScore is an
\* integer from 0 to 100.
C31_ScoresInRange ==
  /\ \A p \in Proxies : proxies[p].healthScore \in 0..100
  /\ \A a \in DOMAIN accounts :
       getAccount(Tables, monitor, a).healthScore \in 0..100

\* a daily run has just stored a lowered score for an account while one
\* proxy sits at the floor after a degradation report and the other at the
\* cap
C31_Witness ==
  /\ ret.op = "runDailyHealthCheck" /\ "results" \in DOMAIN ret
  /\ \E a \in DOMAIN accounts :
       /\ getAccount(Tables, monitor, a).healthScore < 100
       /\ \E k \in 1..Len(ret.results) :
            /\ ret.results[k].accountId = a
            /\ ret.results[k].healthScore = getAccount(Tables, monitor, a).healthScore
  /\ \E p, q \in Proxies :
       /\ proxies[p].healthScore = 0
       /\ \E i \in 1..Len(incidents) :
            incidents[i].type = "proxy_degraded" /\ incidents[i].proxyId = p
       /\ proxies[q].healthScore = 100

\* C32: a handleProxyFailure (ProxyFailover) or failoverAccount
\* (AccountProxyManager) call turned away because the account id is unknown
\* or because a failover of the account is in progress leaves the tables as
\* they were when it was called: no incident is added, no proxy's status or
\* assignedAccounts changes, and no account binding or mapping changes.
Rejected ==
  /\ ret.op \in {"handleProxyFailure", "failoverAccount"}
  /\ "error" \in DOMAIN ret
  /\ ret.error \in {"account_not_found", "already_in_progress"}

C32_RejectedCallChangesNothing ==
  Rejected =>
    /\ incidents = ret.pre.incidents
    /\ \A p \in Proxies :
         /\ proxies[p].status = ret.pre.proxies[p].status
         /\ proxies[p].assignedAccounts = ret.pre.proxies[p].assignedAccounts
    /\ accounts = ret.pre.accounts
    /\ mappings = ret.pre.mappings

\* the second call for an account is turned away while the first one, which
\* has moved the account, awaits updateAdsPowerProxy
C32_Witness ==
  /\ Rejected
  /\ ret.error = "already_in_progress"
  /\ hpf[ret.accountId] # NoFrame
  /\ accounts[ret.accountId].proxyId = hpf[ret.accountId].newProxyId

\* C33: no step removes an incident, and no step moves an incident's
\* status backwards along open -> investigating -> resolved|ignored: an
\* incident that is resolved or ignored is never open or investigating
\* again.
statusRank(st) ==
  CASE st = "open" -> 0
    [] st = "investigating" -> 1
    [] OTHER -> 2

IncidentsForward ==
  /\ Len(incidents') >= Len(incidents)
  /\ \A i \in 1..Len(incidents) :
       statusRank(incidents'[i].status) >= statusRank(incidents[i].status)

C33_IncidentStatusForward == [][IncidentsForward]_vars

\* C34: every successful result of ProxyFailover.handleProxyFailure and of
\* AccountProxyManager.failoverAccount names a new proxy that differs from
\* the account's previous proxy.
C34_FailoverNamesOtherProxy ==
  (/\ ret.op \in {"handleProxyFailure", "failoverAccount"}
   /\ "success" \in DOMAIN ret
   /\ ret.success)
  => ret.newProxyId # ret.oldProxyId

\* the step binds account a: a is new, or its proxyId changes
BindingStep(a) ==
  /\ a \in DOMAIN accounts'
  /\ \/ a \notin DOMAIN accounts
     \/ accounts'[a].proxyId # accounts[a].proxyId

\* C35 as stated: whichever call binds an account (createAccount,
\* moveAccount, rebalanceMappings or a failover), the proxy it binds the
\* account to has status active when the binding is made.
C35_BoundProxyActive ==
  [][\A a \in Accounts :
       BindingStep(a) => proxies'[accounts'[a].proxyId].status = "active"]_vars

\* C35, amended: the calls that choose the proxy themselves (createAccount,
\* rebalanceMappings and the failovers) bind an account only to a proxy whose
\* status is active when the binding is made; moveAccount binds the account
\* to the target it is given, whatever the target's status.
C35_ChosenProxyActive ==
  [][\A a \in Accounts :
       (BindingStep(a) /\ ret'.op # "moveAccount")
         => proxies'[accounts'[a].proxyId].status = "active"]_vars

\* createAccount has just bound an account, passing over a proxy out of
\* service that holds fewer accounts than the one it chose
C35_Witness ==
  /\ ret.op = "createAccount" /\ ret.success
  /\ accounts[ret.id].proxyId = ret.proxyId
  /\ proxies[ret.proxyId].status = "active"
  /\ \E q \in Proxies :
       /\ proxies[q].status # "active"
       /\ proxies[q].assignedAccounts < proxies[ret.proxyId].assignedAccounts
       /\ proxies[q].assignedAccounts < proxies[q].maxAccounts

\* the step is checkAllProxies taking a probe's answer, for the proxy Probed
ProbeAnswered == cap # NoFrame /\ cap' # cap
Probed == getAllProxies(Tables)[cap.idx]
ProbeAnswer == IF cap' = NoFrame THEN ret'.results[cap.idx] ELSE cap'.results[cap.idx]

\* the step is recoverProxy taking a passing probe's answer
RecoveryAnswered == rec # NoFrame /\ rec' = NoFrame /\ ret'.result

\* C36: the healthScore a call writes after its awaited probe is its
\* adjustment applied to the value the proxy has at that moment:
\* checkAllProxies takes 20 off (floor 0) for a failed probe and, when it
\* raises the score, adds 10 (cap 100); recoverProxy adds 20 (cap 100).  An
\* adjustment made while the call was suspended is then still in the result.
AdjustsCurrentScore ==
  /\ ProbeAnswered =>
       LET now == proxies[Probed].healthScore
           after == proxies'[Probed].healthScore
       IN IF ~ProbeAnswer THEN after = Max(0, now - 20)
          ELSE after # now => after = Min(100, now + 10)
  /\ RecoveryAnswered =>
       proxies'[rec.proxyId].healthScore =
         Min(100, proxies[rec.proxyId].healthScore + 20)

C36_AdjustmentsNotLost == [][AdjustsCurrentScore]_vars

\* C37: when ProxyFailover.handleProxyFailure returns success = false, the
\* account rows (each account's proxyId), the mappings and every proxy's
\* assignedAccounts are what they were when the call was made.
C37_FailureLeavesBinding ==
  (ret.op = "handleProxyFailure" /\ ~ret.success) =>
    /\ accounts = ret.pre.accounts
    /\ mappings = ret.pre.mappings
    /\ \A p \in Proxies :
         proxies[p].assignedAccounts = ret.pre.proxies[p].assignedAccounts

\* the steps a workflow of this type declares
DeclaredSteps(wf) ==
  CASE wf.type = "onboarding" -> OnboardingSteps
    [] wf.type = "recovery" -> RecoverySteps
    [] wf.type = "maintenance" -> MaintenanceSteps

\* the workflow function that created w has returned or thrown
Terminated(w) == w \in DOMAIN workflows /\ wfr[w] = NoFrame

C39_ActiveScoreAtLeast32 ==
  /\ \A k \in 1..Len(monitor.logs) :
       monitor.logs[k].accountStatus = "active" => monitor.logs[k].healthScore >= 32
  /\ monitor.config.criticalThreshold = DefaultCriticalThreshold =>
       \A i \in 1..Len(incidents) : incidents[i].type # "health_check_failed"

\* under the default thresholds a run has returned a result of exactly 32
\* (proxy down, action limit reached, spam score 100, no activity): a
\* warning is sent and no incident is opened
C39_Witness ==
  /\ monitor.config.criticalThreshold = DefaultCriticalThreshold
  /\ ret.op = "runDailyHealthCheck" /\ "results" \in DOMAIN ret
  /\ \E k \in 1..Len(ret.results) :
       /\ ret.results[k].healthScore = 32
       /\ Len(ret.results[k].issues) = 4
       /\ \E j \in 1..Len(monitor.alerts) :
            /\ monitor.alerts[j].level = "WARNING"
            /\ monitor.alerts[j].accountId = ret.results[k].accountId
            /\ monitor.alerts[j].healthScore = 32
  /\ incidents = <<>>

\* C40: a published command.test-proxies event, or a command.health-check
\* event addressed to account-proxy, makes the monitor start the
\* corresponding check exactly once when the monitor is running and not at
\* all when it is stopped; a stopped monitor starts no check.
C40_CommandRunsOnceIfRunning ==
  /\ (/\ ret.op = "publish"
      /\ \/ ret.event.type = "command.test-proxies"
         \/ ret.event.target = "account-proxy")
     => ret.ran = IF ret.isRunning THEN 1 ELSE 0
  /\ ret.op = "timer" => ret.isRunning

====
